---- MODULE Spec2Model ----
(***************************************************************************)
(* The request -> prompt -> model -> parsed-result pipeline of the German  *)
(* article service: request validation, the call to the generative model,  *)
(* extraction of the JSON payload from the candidates' text, result        *)
(* classification and the replies of the console, HTTP and chat handlers.  *)
(*                                                                         *)
(* Text is a sequence of one-character strings, so that the regular        *)
(* expressions, TrimSpace and the JSON decoder act on characters as the    *)
(* code's do.  A character a string of this module cannot hold (the        *)
(* backtick, a control character, any character outside ASCII) is written  *)
(* as the name of its code point: "U+0060" is the backtick.                *)
(***************************************************************************)
EXTENDS Integers, Sequences, FiniteSets, TLC

(***************************************************************************)
(* Characters and elementary text operations                               *)
(***************************************************************************)

\* unicode.IsSpace (strings.TrimSpace): '\t', '\n', '\v', '\f', '\r', ' ',
\* U+0085, U+00A0 and the other characters with the White_Space property.
UnicodeSpace ==
    { "\t", "\n", "U+000B", "\f", "\r", " ", "U+0085", "U+00A0", "U+1680",
      "U+2000", "U+2001", "U+2002", "U+2003", "U+2004", "U+2005", "U+2006",
      "U+2007", "U+2008", "U+2009", "U+200A", "U+2028", "U+2029", "U+202F",
      "U+205F", "U+3000" }

\* \s of Go's regexp (RE2): [\t\n\f\r ].
RegexpSpace == {"\t", "\n", "\f", "\r", " "}

\* encoding/json's isSpace: space, tab, CR, LF.
JsonSpace == {" ", "\t", "\r", "\n"}

Digits == {"0", "1", "2", "3", "4", "5", "6", "7", "8", "9"}

\* The digits of base 16 in capitals.
UpperHex == <<"0","1","2","3","4","5","6","7","8","9","A","B","C","D","E","F">>

\* The characters U+0020 to U+007E in the order of their code points.
Ascii ==
    << " ","!","\"","#","$","%","&","'","(",")","*","+",",","-",".","/",
       "0","1","2","3","4","5","6","7","8","9",":",";","<","=",">","?",
       "@","A","B","C","D","E","F","G","H","I","J","K","L","M","N","O",
       "P","Q","R","S","T","U","V","W","X","Y","Z","[","\\","]","^","_",
       "U+0060","a","b","c","d","e","f","g","h","i","j","k","l","m","n","o",
       "p","q","r","s","t","u","v","w","x","y","z","{","|","}","~" >>

RECURSIVE HexName(_, _)
\* The number r in base 16 with at least n digits, in capitals.
HexName(r, n) ==
    IF r < 16 /\ n <= 1 THEN UpperHex[r + 1]
    ELSE HexName(r \div 16, n - 1) \o UpperHex[(r % 16) + 1]

\* The characters below 0x20 in the order of their code points (invalid
\* inside a JSON string literal).
ControlNames ==
    << "U+0000", "U+0001", "U+0002", "U+0003", "U+0004", "U+0005", "U+0006",
       "U+0007", "U+0008", "\t", "\n", "U+000B", "\f", "\r", "U+000E", "U+000F",
       "U+0010", "U+0011", "U+0012", "U+0013", "U+0014", "U+0015", "U+0016",
       "U+0017", "U+0018", "U+0019", "U+001A", "U+001B", "U+001C", "U+001D",
       "U+001E", "U+001F" >>
ControlChars == {ControlNames[n] : n \in DOMAIN ControlNames}

\* The character with code point r as this module writes it.
RuneName(r) ==
    CASE r < 32 -> ControlNames[r + 1]
      [] r >= 32 /\ r <= 126 -> Ascii[r - 31]
      [] OTHER -> "U+" \o HexName(r, 4)

UpperCase == <<"A","B","C","D","E","F","G","H","I","J","K","L","M",
               "N","O","P","Q","R","S","T","U","V","W","X","Y","Z">>
LowerCase == <<"a","b","c","d","e","f","g","h","i","j","k","l","m",
               "n","o","p","q","r","s","t","u","v","w","x","y","z">>

\* s[from..to], empty when from > to.
Slice(s, from, to) == IF from > to THEN <<>> ELSE SubSeq(s, from, to)

RECURSIVE Concat(_)
\* The concatenation of a sequence of texts (by halves, to keep the
\* evaluation shallow on long sequences).
Concat(ss) ==
    IF Len(ss) = 0 THEN <<>>
    ELSE IF Len(ss) = 1 THEN ss[1]
    ELSE Concat(SubSeq(ss, 1, Len(ss) \div 2))
         \o Concat(SubSeq(ss, Len(ss) \div 2 + 1, Len(ss)))

\* strings.TrimSpace: the text without its leading and trailing white space.
TrimSpace(s) ==
    LET keep == {i \in 1..Len(s) : s[i] \notin UnicodeSpace}
    IN  IF keep = {} THEN <<>>
        ELSE LET lo == CHOOSE i \in keep : \A j \in keep : i <= j
                 hi == CHOOSE i \in keep : \A j \in keep : j <= i
             IN  SubSeq(s, lo, hi)

(***************************************************************************)
(* The two regular expressions of parseGeminiResponse                      *)
(***************************************************************************)

\* FindObject without the search: the whole text is taken as the object.
FindObjectWholeText(s) == s

\* regexp (?s)\{.*} with FindString: the leftmost match, greedy: from the
\* first '{' that has a '}' after it through the last '}' of the text; ""
\* when there is no match.
FindObject(s) ==
    LET closes == {j \in 1..Len(s) : s[j] = "}"}
    IN  IF closes = {} THEN <<>>
        ELSE LET hi == CHOOSE j \in closes : \A k \in closes : k <= j
                 opens == {i \in 1..(hi - 1) : s[i] = "{"}
             IN  IF opens = {} THEN <<>>
                 ELSE SubSeq(s, CHOOSE i \in opens : \A k \in opens : i <= k, hi)

RECURSIVE SkipRegexpSpace(_, _)
\* The first position at or after i that holds no \s character (Len(s)+1 at the end).
SkipRegexpSpace(s, i) ==
    IF i <= Len(s) /\ s[i] \in RegexpSpace THEN SkipRegexpSpace(s, i + 1) ELSE i

\* Position i starts a match of ,(\s*[}\]]).
TrailingCommaAt(s, i) ==
    /\ s[i] = ","
    /\ LET j == SkipRegexpSpace(s, i + 1)
       IN  j <= Len(s) /\ s[j] \in {"}", "]"}

\* reValidate.ReplaceAllString(text, "$1") for ,(\s*[}\]]): a match holds one
\* comma, its first character, and matches never overlap, so every match's
\* comma is deleted and the rest of the text kept.
RemoveTrailingCommas(s) ==
    LET marked == [i \in 1..Len(s) |-> [c |-> s[i], matched |-> TrailingCommaAt(s, i)]]
        kept == SelectSeq(marked, LAMBDA m : ~m.matched)
    IN  [i \in 1..Len(kept) |-> kept[i].c]

\* Lines 173-179: the text handed to json.Unmarshal.
CleanResponse(textResponse) ==
    RemoveTrailingCommas(TrimSpace(FindObject(textResponse)))

(***************************************************************************)
(* encoding/json: the scanner (checkValid) as a parser to a value tree     *)
(***************************************************************************)

\* The character at position i, "" past the end.
At(s, i) == IF 1 <= i /\ i <= Len(s) THEN s[i] ELSE ""

\* The text s holds lit at position i.
HasLiteral(s, i, lit) ==
    i + Len(lit) - 1 <= Len(s) /\ SubSeq(s, i, i + Len(lit) - 1) = lit

RECURSIVE SkipJsonSpace(_, _)
\* The first position at or after i that holds no JSON white space.
SkipJsonSpace(s, i) ==
    IF i <= Len(s) /\ s[i] \in JsonSpace THEN SkipJsonSpace(s, i + 1) ELSE i

RECURSIVE SkipDigits(_, _)
SkipDigits(s, i) ==
    IF i <= Len(s) /\ s[i] \in Digits THEN SkipDigits(s, i + 1) ELSE i

\* The position after the JSON number that starts at i, 0 when there is none:
\* -?(0|[1-9][0-9]*)(\.[0-9]+)?([eE][+-]?[0-9]+)?
ScanNumber(s, i) ==
    LET a == IF At(s, i) = "-" THEN i + 1 ELSE i
        b == IF At(s, a) = "0" THEN a + 1
             ELSE IF At(s, a) \in Digits THEN SkipDigits(s, a + 1) ELSE 0
        c == IF b = 0 THEN 0
             ELSE IF At(s, b) = "."
                  THEN (IF At(s, b + 1) \in Digits THEN SkipDigits(s, b + 1) ELSE 0)
                  ELSE b
        d == IF c = 0 THEN 0
             ELSE IF At(s, c) \in {"e", "E"}
                  THEN LET e == IF At(s, c + 1) \in {"+", "-"} THEN c + 2 ELSE c + 1
                       IN  IF At(s, e) \in Digits THEN SkipDigits(s, e) ELSE 0
                  ELSE c
    IN  d

\* The digits of base 16 in both cases, and the value of one: -1 for any
\* other character.
HexDigits ==
    << "0","1","2","3","4","5","6","7","8","9","a","b","c","d","e","f",
       "A","B","C","D","E","F" >>
HexValue(c) ==
    LET at == {n \in DOMAIN HexDigits : HexDigits[n] = c}
    IN  IF at = {} THEN -1
        ELSE IF at \subseteq 1..16 THEN (CHOOSE n \in at : TRUE) - 1
        ELSE (CHOOSE n \in at : TRUE) - 7

\* The number four base 16 digits with the values h stand for, -1 when one of
\* them is no digit.
Hex4(h) ==
    IF \E k \in 1..4 : h[k] < 0 THEN -1
    ELSE 4096 * h[1] + 256 * h[2] + 16 * h[3] + h[4]

\* getu4: the code unit of the \uXXXX that starts at position i, -1 when the
\* text there is not a backslash, a u and four base 16 digits.
getu4(s, i) ==
    IF i + 5 > Len(s) \/ s[i] # "\\" \/ s[i + 1] # "u" THEN -1
    ELSE Hex4([k \in 1..4 |-> HexValue(s[i + 1 + k])])

\* unicode.ReplacementChar
ReplacementChar == 65533

\* utf16.IsSurrogate
IsSurrogate(r) == 55296 <= r /\ r < 57344

\* utf16.DecodeRune: the code point of a surrogate pair, the replacement
\* character when the two are no pair.
DecodeRune(r1, r2) ==
    IF 55296 <= r1 /\ r1 < 56320 /\ 56320 <= r2 /\ r2 < 57344
    THEN (r1 - 55296) * 1024 + (r2 - 56320) + 65536
    ELSE ReplacementChar

\* What an escape stands for: the character and the position after the
\* escape; ok is false when the text is no escape.
NoEscape == [ok |-> FALSE, c |-> "", pos |-> 0]
Escaped(c, pos) == [ok |-> TRUE, c |-> c, pos |-> pos]

\* unquote's case 'u' for the code unit rr of the escape at position i and the
\* code unit rr1 of an escape right after it (-1 without one): a surrogate
\* takes the next escape with it when the two are a pair and is the
\* replacement character otherwise.
UnquoteRune(rr, rr1, i) ==
    IF rr < 0 THEN NoEscape
    ELSE Escaped(RuneName(IF IsSurrogate(rr) THEN DecodeRune(rr, rr1) ELSE rr),
                 IF IsSurrogate(rr) /\ DecodeRune(rr, rr1) # ReplacementChar
                 THEN i + 12 ELSE i + 6)

\* The \uXXXX escape at position i of a string literal.
UnescapeUnicode(s, i) == UnquoteRune(getu4(s, i), getu4(s, i + 6), i)

\* The escape of a backslash and the character c at position i: one of
\* \" \\ \/ \b \f \n \r \t.
Unescape(c, i) ==
    CASE c = "\"" -> Escaped("\"", i + 2)
      [] c = "\\" -> Escaped("\\", i + 2)
      [] c = "/"  -> Escaped("/", i + 2)
      [] c = "b"  -> Escaped("U+0008", i + 2)
      [] c = "f"  -> Escaped("\f", i + 2)
      [] c = "n"  -> Escaped("\n", i + 2)
      [] c = "r"  -> Escaped("\r", i + 2)
      [] c = "t"  -> Escaped("\t", i + 2)
      [] OTHER    -> NoEscape

JNull == [t |-> "null"]
ParseFail == [ok |-> FALSE, pos |-> 0, v |-> JNull]
ParseOk(pos, v) == [ok |-> TRUE, pos |-> pos, v |-> v]

RECURSIVE ScanString(_, _, _)
RECURSIVE ScanEscape(_, _, _)

\* The string literal whose opening quote is before position i; acc is the
\* unquoted text read so far.
ScanString(s, i, acc) ==
    IF i > Len(s) THEN ParseFail
    ELSE IF s[i] = "\"" THEN ParseOk(i + 1, [t |-> "str", s |-> acc])
    ELSE IF s[i] = "\\"
         THEN ScanEscape(s, acc, IF At(s, i + 1) = "u" THEN UnescapeUnicode(s, i)
                                 ELSE Unescape(At(s, i + 1), i))
    ELSE IF s[i] \in ControlChars THEN ParseFail
    ELSE ScanString(s, i + 1, Append(acc, s[i]))

\* The string literal after the escape e.
ScanEscape(s, acc, e) ==
    IF ~e.ok THEN ParseFail ELSE ScanString(s, e.pos, Append(acc, e.c))

RECURSIVE ParseValue(_, _)
RECURSIVE ParseMembers(_, _, _, _)
RECURSIVE ParseElements(_, _, _, _)

\* The JSON value that starts at position i (which holds no white space).
ParseValue(s, i) ==
    LET c == At(s, i)
    IN  IF c = "{" THEN ParseMembers(s, SkipJsonSpace(s, i + 1), <<>>, TRUE)
        ELSE IF c = "[" THEN ParseElements(s, SkipJsonSpace(s, i + 1), <<>>, TRUE)
        ELSE IF c = "\"" THEN ScanString(s, i + 1, <<>>)
        ELSE IF HasLiteral(s, i, <<"t","r","u","e">>) THEN ParseOk(i + 4, [t |-> "true"])
        ELSE IF HasLiteral(s, i, <<"f","a","l","s","e">>) THEN ParseOk(i + 5, [t |-> "false"])
        ELSE IF HasLiteral(s, i, <<"n","u","l","l">>) THEN ParseOk(i + 4, JNull)
        ELSE IF c = "-" \/ c \in Digits
             THEN (IF ScanNumber(s, i) = 0 THEN ParseFail
                   ELSE ParseOk(ScanNumber(s, i), [t |-> "num"]))
        ELSE ParseFail

\* The members of an object from position i on; first: no member was read yet,
\* so the object may close here.
ParseMembers(s, i, acc, first) ==
    IF first /\ At(s, i) = "}" THEN ParseOk(i + 1, [t |-> "obj", kv |-> acc])
    ELSE IF At(s, i) # "\"" THEN ParseFail
    ELSE LET key == ScanString(s, i + 1, <<>>)
         IN  IF ~key.ok THEN ParseFail
             ELSE LET colon == SkipJsonSpace(s, key.pos)
                  IN  IF At(s, colon) # ":" THEN ParseFail
                      ELSE LET val == ParseValue(s, SkipJsonSpace(s, colon + 1))
                           IN  IF ~val.ok THEN ParseFail
                               ELSE LET e == SkipJsonSpace(s, val.pos)
                                        acc2 == Append(acc, [k |-> key.v.s, v |-> val.v])
                                    IN  IF At(s, e) = ","
                                        THEN ParseMembers(s, SkipJsonSpace(s, e + 1), acc2, FALSE)
                                        ELSE IF At(s, e) = "}"
                                        THEN ParseOk(e + 1, [t |-> "obj", kv |-> acc2])
                                        ELSE ParseFail

\* The elements of an array from position i on.
ParseElements(s, i, acc, first) ==
    IF first /\ At(s, i) = "]" THEN ParseOk(i + 1, [t |-> "arr", el |-> acc])
    ELSE LET val == ParseValue(s, i)
         IN  IF ~val.ok THEN ParseFail
             ELSE LET e == SkipJsonSpace(s, val.pos)
                      acc2 == Append(acc, val.v)
                  IN  IF At(s, e) = ","
                      THEN ParseElements(s, SkipJsonSpace(s, e + 1), acc2, FALSE)
                      ELSE IF At(s, e) = "]"
                      THEN ParseOk(e + 1, [t |-> "arr", el |-> acc2])
                      ELSE ParseFail

\* checkValid: the whole text is one JSON value between optional white space.
ParseJSON(s) ==
    LET val == ParseValue(s, SkipJsonSpace(s, 1))
    IN  IF val.ok /\ SkipJsonSpace(s, val.pos) = Len(s) + 1 THEN val ELSE ParseFail

(***************************************************************************)
(* The entities and their JSON tags (article_response.go), as the types    *)
(* encoding/json reflects on                                               *)
(***************************************************************************)

TBool == [k |-> "bool"]
TString == [k |-> "string"]
TSlice(elem) == [k |-> "slice", e |-> elem]
TStruct(fields) == [k |-> "struct", f |-> fields]
\* A struct field: its Go name, its JSON key, its type and its omitempty option.
Field(name, json, ty, omitempty) ==
    [name |-> name, json |-> json, ty |-> ty, omitempty |-> omitempty]

TranslationsInfo ==
    TStruct(<<
              Field("NominativeExample", <<"n","o","m","i","n","a","t","i","v","e","E","x","a","m","p","l","e">>, TString, TRUE),
              Field("NominativeTranslation", <<"n","o","m","i","n","a","t","i","v","e","T","r","a","n","s","l","a","t","i","o","n">>, TString, TRUE),
              Field("AccusativeExample", <<"a","c","c","u","s","a","t","i","v","e","E","x","a","m","p","l","e">>, TString, TRUE),
              Field("AccusativeTranslation", <<"a","c","c","u","s","a","t","i","v","e","T","r","a","n","s","l","a","t","i","o","n">>, TString, TRUE),
              Field("DativeExample", <<"d","a","t","i","v","e","E","x","a","m","p","l","e">>, TString, TRUE),
              Field("DativeTranslation", <<"d","a","t","i","v","e","T","r","a","n","s","l","a","t","i","o","n">>, TString, TRUE),
              Field("GenitiveExample", <<"g","e","n","i","t","i","v","e","E","x","a","m","p","l","e">>, TString, TRUE),
              Field("GenitiveTranslation", <<"g","e","n","i","t","i","v","e","T","r","a","n","s","l","a","t","i","o","n">>, TString, TRUE) >>)

ExampleInfo ==
    TStruct(<< Field("Definite", <<"d","e","f","i","n","i","t","e">>, TranslationsInfo, TRUE),
               Field("Indefinite", <<"i","n","d","e","f","i","n","i","t","e">>, TranslationsInfo, TRUE) >>)

ExamplesInfo ==
    TStruct(<< Field("Singular", <<"s","i","n","g","u","l","a","r">>, ExampleInfo, TRUE),
               Field("Plural", <<"p","l","u","r","a","l">>, ExampleInfo, TRUE) >>)

ArticleInfo ==
    TStruct(<< Field("WordWithArticle", <<"w","o","r","d","W","i","t","h","A","r","t","i","c","l","e">>, TString, FALSE),
               Field("Translation", <<"t","r","a","n","s","l","a","t","i","o","n">>, TString, FALSE),
               Field("Example", <<"e","x","a","m","p","l","e">>, ExamplesInfo, TRUE) >>)

ArticleResponse ==
    TStruct(<< Field("Success", <<"s","u","c","c","e","s","s">>, TBool, FALSE),
               Field("Error", <<"e","r","r","o","r">>, TString, TRUE),
               Field("Data", <<"d","a","t","a">>, TSlice(ArticleInfo), TRUE) >>)

\* The anonymous struct parseGeminiResponse decodes a candidate into.
aiResponse ==
    TStruct(<< Field("Error", <<"e","r","r","o","r">>, TBool, FALSE),
               Field("ErrorMessage", <<"e","r","r","o","r","M","e","s","s","a","g","e">>, TString, FALSE),
               Field("Data", <<"d","a","t","a">>, TSlice(ArticleInfo), FALSE) >>)

FieldNames(ty) == {ty.f[i].name : i \in DOMAIN ty.f}
FieldOf(ty, name) == ty.f[CHOOSE i \in DOMAIN ty.f : ty.f[i].name = name]

RECURSIVE Zero(_)
\* The zero value of a type; a nil slice and an empty one are both <<>>.
Zero(ty) ==
    CASE ty.k = "bool"   -> FALSE
      [] ty.k = "string" -> <<>>
      [] ty.k = "slice"  -> <<>>
      [] ty.k = "struct" -> [n \in FieldNames(ty) |-> Zero(FieldOf(ty, n).ty)]

(***************************************************************************)
(* json.Unmarshal into a struct                                            *)
(***************************************************************************)

\* foldRune and the ASCII branch of foldName: the smallest character that
\* differs from c in case only.  A small letter folds to its capital, and so
\* do the two characters outside ASCII that fall together with ASCII letters,
\* U+017F (long s) and U+212A (Kelvin sign); any other character outside
\* ASCII folds to a character outside ASCII, and is left as it is here.
Fold(c) ==
    IF \E i \in DOMAIN LowerCase : LowerCase[i] = c
    THEN UpperCase[CHOOSE i \in DOMAIN LowerCase : LowerCase[i] = c]
    ELSE IF c = "U+017F" THEN "S"
    ELSE IF c = "U+212A" THEN "K"
    ELSE c

\* foldName: the key with its letters folded to one case.
FoldName(key) == [i \in 1..Len(key) |-> Fold(key[i])]

Min(S) == CHOOSE x \in S : \A y \in S : x <= y

\* The index of the field an object key decodes into: the field with exactly
\* this JSON name, else the first whose name matches case-insensitively, else 0
\* (the member is skipped).
MatchField(ty, key) ==
    LET exact == {i \in DOMAIN ty.f : ty.f[i].json = key}
        fold  == {i \in DOMAIN ty.f : FoldName(ty.f[i].json) = FoldName(key)}
    IN  IF exact # {} THEN Min(exact) ELSE IF fold # {} THEN Min(fold) ELSE 0

DecodeOk(v) == [ok |-> TRUE, v |-> v]
\* An UnmarshalTypeError: Unmarshal returns it, and the caller drops the value.
DecodeErr == [ok |-> FALSE, v |-> FALSE]

\* A slice as the decoder holds it in memory: its length and the elements of
\* its backing array that were written, which stay there when the slice gets
\* shorter.  This is the slice without a backing array.
NoSlice == [len |-> 0, arr |-> <<>>]

RECURSIVE ZeroStored(_)
\* The zero value of a type in memory.
ZeroStored(ty) ==
    CASE ty.k = "bool"   -> FALSE
      [] ty.k = "string" -> <<>>
      [] ty.k = "slice"  -> NoSlice
      [] ty.k = "struct" -> [n \in FieldNames(ty) |-> ZeroStored(FieldOf(ty, n).ty)]

RECURSIVE Loaded(_, _)
\* The value the program reads from memory: a slice's first len elements.
Loaded(m, ty) ==
    CASE ty.k = "slice"  -> [i \in 1..m.len |-> Loaded(m.arr[i], ty.e)]
      [] ty.k = "struct" -> [n \in FieldNames(ty) |-> Loaded(m[n], FieldOf(ty, n).ty)]
      [] OTHER -> m

RECURSIVE Decode(_, _, _)
RECURSIVE DecodeMembers(_, _, _, _)
RECURSIVE DecodeMember(_, _, _, _, _, _)
RECURSIVE DecodeElements(_, _, _, _)
RECURSIVE DecodeElement(_, _, _, _, _)

\* The value tree decoded into the memory cur of a Go value of type ty.
Decode(tree, ty, cur) ==
    IF tree.t = "null" THEN DecodeOk(IF ty.k = "slice" THEN NoSlice ELSE cur)
    ELSE IF ty.k = "bool"
         THEN (IF tree.t \in {"true", "false"} THEN DecodeOk(tree.t = "true") ELSE DecodeErr)
    ELSE IF ty.k = "string"
         THEN (IF tree.t = "str" THEN DecodeOk(tree.s) ELSE DecodeErr)
    ELSE IF ty.k = "struct"
         THEN (IF tree.t = "obj" THEN DecodeMembers(tree.kv, ty, cur, 1) ELSE DecodeErr)
    ELSE (IF tree.t # "arr" THEN DecodeErr
          ELSE IF Len(tree.el) = 0 THEN DecodeOk(NoSlice)
          ELSE DecodeElements(tree.el, ty, cur.arr, 1))

\* The members of an object from the i-th on, decoded in order into the struct
\* cur: a repeated key decodes again into the same field.
DecodeMembers(kv, ty, cur, i) ==
    IF i > Len(kv) THEN DecodeOk(cur)
    ELSE DecodeMember(kv, ty, cur, i, MatchField(ty, kv[i].k),
                      IF MatchField(ty, kv[i].k) = 0 THEN DecodeOk(cur)
                      ELSE Decode(kv[i].v, ty.f[MatchField(ty, kv[i].k)].ty,
                                  cur[ty.f[MatchField(ty, kv[i].k)].name]))

\* The members after the i-th, which matched field f (0: none, the member is
\* skipped) and was decoded with the result r.
DecodeMember(kv, ty, cur, i, f, r) ==
    IF f = 0 THEN DecodeMembers(kv, ty, cur, i + 1)
    ELSE IF ~r.ok THEN DecodeErr
    ELSE DecodeMembers(kv, ty, [cur EXCEPT ![ty.f[f].name] = r.v], i + 1)

\* The elements of a non-empty array from the i-th on, decoded into a slice
\* with the backing array arr (decodeState.array): element i is decoded into
\* the array's i-th element as it is, were it within the slice's length or
\* left behind it by an earlier, longer array, and into a zero value when the
\* array never reached that far; the slice ends as long as the array.
DecodeElements(el, ty, arr, i) ==
    IF i > Len(el) THEN DecodeOk([len |-> Len(el), arr |-> arr])
    ELSE DecodeElement(el, ty, arr, i,
                       Decode(el[i], ty.e, IF i <= Len(arr) THEN arr[i] ELSE ZeroStored(ty.e)))

\* The elements after the i-th, which was decoded with the result r.
DecodeElement(el, ty, arr, i, r) ==
    IF ~r.ok THEN DecodeErr
    ELSE DecodeElements(el, ty,
                        IF i <= Len(arr) THEN [arr EXCEPT ![i] = r.v] ELSE Append(arr, r.v),
                        i + 1)

\* The value the caller of Unmarshal reads after the decoding r.
Unmarshalled(r) == IF r.ok THEN DecodeOk(Loaded(r.v, aiResponse)) ELSE DecodeErr

\* The checked text p decoded into a zero aiResponse.
UnmarshalTree(p) ==
    IF p.ok THEN Decode(p.v, aiResponse, ZeroStored(aiResponse)) ELSE DecodeErr

\* json.Unmarshal(text, &aiResponse) on a zero aiResponse: ok is err == nil.
Unmarshal(text) == Unmarshalled(UnmarshalTree(ParseJSON(text)))

(***************************************************************************)
(* json.Marshal, json.MarshalIndent and Encoder.Encode of the entities     *)
(***************************************************************************)

\* encoding/json's isEmptyValue, which decides omitempty: false, "", a slice
\* of length 0; a struct is never empty.
IsEmptyValue(v, ty) ==
    CASE ty.k = "bool"   -> ~v
      [] ty.k = "string" -> Len(v) = 0
      [] ty.k = "slice"  -> Len(v) = 0
      [] ty.k = "struct" -> FALSE

RECURSIVE ToTree(_, _)
\* The JSON value a Go value of type ty is encoded as.
ToTree(v, ty) ==
    CASE ty.k = "bool"   -> [t |-> IF v THEN "true" ELSE "false"]
      [] ty.k = "string" -> [t |-> "str", s |-> v]
      [] ty.k = "slice"  -> [t |-> "arr", el |-> [i \in 1..Len(v) |-> ToTree(v[i], ty.e)]]
      [] ty.k = "struct" ->
            LET kept == SelectSeq(ty.f,
                          LAMBDA fld : ~(fld.omitempty /\ IsEmptyValue(v[fld.name], fld.ty)))
            IN  [t |-> "obj",
                 kv |-> [i \in 1..Len(kept) |->
                           [k |-> kept[i].json, v |-> ToTree(v[kept[i].name], kept[i].ty)]]]

\* The encoder's escape of one character inside a string (escapeHTML is on):
\* the quote and the backslash, \b \f \n \r \t, \u00XX for the other
\* characters below 0x20 and for < > &, and for U+2028 and U+2029.
EscapeChar(c) ==
    CASE c = "\"" -> <<"\\", "\"">>
      [] c = "\\" -> <<"\\", "\\">>
      [] c = "U+0008" -> <<"\\", "b">>
      [] c = "\f" -> <<"\\", "f">>
      [] c = "\n" -> <<"\\", "n">>
      [] c = "\r" -> <<"\\", "r">>
      [] c = "\t" -> <<"\\", "t">>
      [] c \in ControlChars \ {"U+0008", "\f", "\n", "\r", "\t"} ->
            LET b == (CHOOSE n \in DOMAIN ControlNames : ControlNames[n] = c) - 1
            IN  <<"\\", "u", "0", "0", HexDigits[(b \div 16) + 1], HexDigits[(b % 16) + 1]>>
      [] c = "<"  -> <<"\\", "u", "0", "0", "3", "c">>
      [] c = ">"  -> <<"\\", "u", "0", "0", "3", "e">>
      [] c = "&"  -> <<"\\", "u", "0", "0", "2", "6">>
      [] c = "U+2028" -> <<"\\", "u", "2", "0", "2", "8">>
      [] c = "U+2029" -> <<"\\", "u", "2", "0", "2", "9">>
      [] OTHER    -> <<c>>

QuoteString(s) ==
    <<"\"">> \o Concat([i \in 1..Len(s) |-> EscapeChar(s[i])]) \o <<"\"">>

RECURSIVE Spaces(_)
Spaces(n) == IF n = 0 THEN <<>> ELSE <<" ">> \o Spaces(n - 1)

RECURSIVE Render(_, _, _)
RECURSIVE RenderItems(_, _, _, _)

\* The text of a JSON value. style.indent: one item per line, two spaces per
\* level, ": " after a key (MarshalIndent with prefix "" and indent "  "), at
\* nesting depth; style.trailer: text put after the last item of a non-empty
\* object or array (empty in everything the encoder writes).
Render(tree, style, depth) ==
    CASE tree.t = "str" -> QuoteString(tree.s)
      [] tree.t = "obj" -> IF Len(tree.kv) = 0 THEN <<"{", "}">>
                           ELSE <<"{">> \o RenderItems(tree, style, depth + 1, 1) \o <<"}">>
      [] tree.t = "arr" -> IF Len(tree.el) = 0 THEN <<"[", "]">>
                           ELSE <<"[">> \o RenderItems(tree, style, depth + 1, 1) \o <<"]">>
      [] tree.t = "true"  -> <<"t","r","u","e">>
      [] tree.t = "false" -> <<"f","a","l","s","e">>
      [] tree.t = "null"  -> <<"n","u","l","l">>

\* The items of a non-empty object or array from the i-th on, up to its closing
\* bracket.
RenderItems(tree, style, depth, i) ==
    LET n == IF tree.t = "obj" THEN Len(tree.kv) ELSE Len(tree.el)
        break(d) == IF style.indent THEN <<"\n">> \o Spaces(2 * d) ELSE <<>>
        item == IF tree.t = "obj"
                THEN QuoteString(tree.kv[i].k) \o <<":">>
                     \o (IF style.indent THEN <<" ">> ELSE <<>>)
                     \o Render(tree.kv[i].v, style, depth)
                ELSE Render(tree.el[i], style, depth)
    IN  break(depth) \o item
        \o (IF i < n THEN <<",">> \o RenderItems(tree, style, depth, i + 1)
            ELSE style.trailer \o break(depth - 1))

Compact == [indent |-> FALSE, trailer |-> <<>>]
Indented == [indent |-> TRUE, trailer |-> <<>>]

\* json.Marshal(v)
Marshal(v, ty) == Render(ToTree(v, ty), Compact, 0)

\* json.MarshalIndent(v, "", "  ")
MarshalIndent(v, ty) == Render(ToTree(v, ty), Indented, 0)

\* json.NewEncoder(w).Encode(v): the compact text and a newline.
EncoderEncode(v, ty) == Marshal(v, ty) \o <<"\n">>

(***************************************************************************)
(* Responses and the fixed texts of the code                               *)
(***************************************************************************)

\* "No response from AI service"
MsgNoResponse ==
    << "N","o"," ","r","e","s","p","o","n","s","e"," ","f","r","o","m"," ",
       "A","I"," ","s","e","r","v","i","c","e" >>

\* "Failed to parse AI response"
MsgFailedToParse ==
    << "F","a","i","l","e","d"," ","t","o"," ","p","a","r","s","e"," ","A",
       "I"," ","r","e","s","p","o","n","s","e" >>

\* "Word cannot be empty"
MsgWordEmpty ==
    << "W","o","r","d"," ","c","a","n","n","o","t"," ","b","e"," ","e","m",
       "p","t","y" >>

\* "Failed to process request"
MsgFailedToProcess ==
    << "F","a","i","l","e","d"," ","t","o"," ","p","r","o","c","e","s","s",
       " ","r","e","q","u","e","s","t" >>

\* "Word parameter is required"
MsgWordRequired ==
    << "W","o","r","d"," ","p","a","r","a","m","e","t","e","r"," ","i","s",
       " ","r","e","q","u","i","r","e","d" >>

\* "Internal server error"
MsgInternalError ==
    << "I","n","t","e","r","n","a","l"," ","s","e","r","v","e","r"," ","e",
       "r","r","o","r" >>

\* "Invalid request format"
MsgInvalidRequest ==
    << "I","n","v","a","l","i","d"," ","r","e","q","u","e","s","t"," ","f",
       "o","r","m","a","t" >>

\* "Invalid JSON format"
MsgInvalidJSON ==
    << "I","n","v","a","l","i","d"," ","J","S","O","N"," ","f","o","r","m",
       "a","t" >>

\* "Method not allowed"
MsgMethodNotAllowed ==
    << "M","e","t","h","o","d"," ","n","o","t"," ","a","l","l","o","w","e",
       "d" >>

\* "Please send me a German word to analyze."
MsgSendWord ==
    << "P","l","e","a","s","e"," ","s","e","n","d"," ","m","e"," ","a"," ",
       "G","e","r","m","a","n"," ","w","o","r","d"," ","t","o"," ","a","n",
       "a","l","y","z","e","." >>

\* "Sorry, I encountered an error while processing your request. Please try again."
MsgSorry ==
    << "S","o","r","r","y",","," ","I"," ","e","n","c","o","u","n","t","e",
       "r","e","d"," ","a","n"," ","e","r","r","o","r"," ","w","h","i","l",
       "e"," ","p","r","o","c","e","s","s","i","n","g"," ","y","o","u","r",
       " ","r","e","q","u","e","s","t","."," ","P","l","e","a","s","e"," ",
       "t","r","y"," ","a","g","a","i","n","." >>

\* "Failed to process request: "
MsgFatal ==
    << "F","a","i","l","e","d"," ","t","o"," ","p","r","o","c","e","s","s"," ",
       "r","e","q","u","e","s","t",":"," " >>

\* "en"
DefaultLanguage ==
    << "e","n" >>

\* NewSuccessResponse
NewSuccessResponse(dataIn) == [Success |-> TRUE, Error |-> <<>>, Data |-> dataIn]

\* NewErrorResponse that leaves Success set.
NewErrorResponseSuccess(errText) == [Success |-> TRUE, Error |-> errText, Data |-> <<>>]

\* NewErrorResponse
NewErrorResponse(errText) == [Success |-> FALSE, Error |-> errText, Data |-> <<>>]

(***************************************************************************)
(* Request model                                                           *)
(***************************************************************************)

\* NewArticleRequest
NewArticleRequest(word, language) ==
    [Word |-> word, Language |-> IF language = <<>> THEN DefaultLanguage ELSE language]

\* ArticleRequest.IsValid
IsValid(r) == r.Word # <<>>

\* strings.Split(s, sep)[0] for a one-character sep: the text before its first
\* occurrence, the whole text when there is none.
BeforeFirst(s, sep) ==
    LET at == {i \in 1..Len(s) : s[i] = sep}
    IN  IF at = {} THEN s ELSE Slice(s, 1, Min(at) - 1)

Contains(s, c) == \E i \in 1..Len(s) : s[i] = c

\* ArticleHandler.extractLanguageFromHeader
extractLanguageFromHeader(acceptLanguage) ==
    IF acceptLanguage = <<>> THEN DefaultLanguage
    ELSE LET lang0 == TrimSpace(BeforeFirst(acceptLanguage, ","))
             lang1 == IF Contains(lang0, "-") THEN BeforeFirst(lang0, "-") ELSE lang0
             lang2 == IF Contains(lang1, ";") THEN BeforeFirst(lang1, ";") ELSE lang1
         IN  lang2

\* BotHandler.getUserLanguage
getUserLanguage(languageCode) ==
    IF languageCode # <<>> THEN languageCode ELSE DefaultLanguage

(***************************************************************************)
(* The prompt and its rendering by html/template                           *)
(*                                                                         *)
(* The template is a sequence of pieces: literal text, kept as one string  *)
(* per line (a character outside ASCII as its code point's name), and the  *)
(* actions {{.Word}} and {{.Language}}. The rendered prompt is a sequence  *)
(* of the literal pieces and the characters written for the actions.       *)
(***************************************************************************)

Text(s) == [kind |-> "text", s |-> s]
Action(field) == [kind |-> "action", s |-> field]

\* The constant prompt, part_004 lines 19-84.
prompt ==
    << Text("You are a German language assistant. I will provide you with a German noun (Nomen), and you need to determine the correct article (der, die, das).\n"),
       Text("\n"),
       Text("The word is: \""),
       Action("Word"),
       Text("\"\n"),
       Text("U+043E"),
       Text("U+043F"),
       Text("U+0440"),
       Text("U+0435"),
       Text("U+0434"),
       Text("U+0435"),
       Text("U+043B"),
       Text("U+0451"),
       Text("U+043D"),
       Text("U+043D"),
       Text("U+044B"),
       Text("U+0439"),
       Text(" "),
       Text("U+0430"),
       Text("U+0440"),
       Text("U+0442"),
       Text("U+0438"),
       Text("U+043A"),
       Text("U+043B"),
       Text("U+044C"),
       Text(" "),
       Text("U+2014"),
       Text(" definite article\n"),
       Text("U+043D"),
       Text("U+0435"),
       Text("U+043E"),
       Text("U+043F"),
       Text("U+0440"),
       Text("U+0435"),
       Text("U+0434"),
       Text("U+0435"),
       Text("U+043B"),
       Text("U+0451"),
       Text("U+043D"),
       Text("U+043D"),
       Text("U+044B"),
       Text("U+0439"),
       Text(" "),
       Text("U+0430"),
       Text("U+0440"),
       Text("U+0442"),
       Text("U+0438"),
       Text("U+043A"),
       Text("U+043B"),
       Text("U+044C"),
       Text(" "),
       Text("U+2014"),
       Text(" indefinite article\n"),
       Text("Respond in JSON format with EXACTLY this structure:\n"),
       Text("{\n"),
       Text("  \"error\": false/true,\n"),
       Text("  \"errorMessage\": \"Only if there's an error, explain what's wrong in "),
       Action("Language"),
       Text(" language\",\n"),
       Text("  \"data\": [\n"),
       Text("    {\n"),
       Text("      \"wordWithArticle\": \"article + word in German\",\n"),
       Text("      \"translation\": \"translation in "),
       Action("Language"),
       Text("\",\n"),
       Text("\t  \"example\": {\n"),
       Text("\t\t\"singular\": {\n"),
       Text("\t\t\t\"definite\": {\n"),
       Text("\t\t\t\t\"nominativeExample\": \"simple example using the word \\\""),
       Action("Word"),
       Text("\\\" in singular nominative definite case\",\n"),
       Text("\t\t\t\t\"nominativeTranslation\": \"translation of the singular nominative definite example in "),
       Action("Language"),
       Text("\",\n"),
       Text("\t\t\t\t\"accusativeExample\": \"simple example using the word \\\""),
       Action("Word"),
       Text("\\\" in singular accusative definite case\",\n"),
       Text("\t\t\t\t\"accusativeTranslation\": \"translation of the singular accusative definite example in "),
       Action("Language"),
       Text("\",\n"),
       Text("\t\t\t\t\"dativeExample\": \"simple example using the word \\\""),
       Action("Word"),
       Text("\\\" in singular dative definite case\",\n"),
       Text("\t\t\t\t\"dativeTranslation\": \"translation of the singular dative definite example in "),
       Action("Language"),
       Text("\",\n"),
       Text("\t\t\t\t\"genitiveExample\": \"simple example using the word \\\""),
       Action("Word"),
       Text("\\\" in singular genitive definite case\",\n"),
       Text("\t\t\t\t\"genitiveTranslation\": \"translation of the singular genitive definite example in "),
       Action("Language"),
       Text("\"\n"),
       Text("\t\t\t},\n"),
       Text("\t\t\t\"indefinite\": {\n"),
       Text("\t\t\t\t\"nominativeExample\": \"simple example using the word \\\""),
       Action("Word"),
       Text("\\\" in singular nominative indefinite case\",\n"),
       Text("\t\t\t\t\"nominativeTranslation\": \"translation of the singular nominative indefinite example in "),
       Action("Language"),
       Text("\",\n"),
       Text("\t\t\t\t\"accusativeExample\": \"simple example using the word \\\""),
       Action("Word"),
       Text("\\\" in singular accusative indefinite case\",\n"),
       Text("\t\t\t\t\"accusativeTranslation\": \"translation of the singular accusative indefinite example in "),
       Action("Language"),
       Text("\",\n"),
       Text("\t\t\t\t\"dativeExample\": \"simple example using the word \\\""),
       Action("Word"),
       Text("\\\" in singular dative indefinite case\",\n"),
       Text("\t\t\t\t\"dativeTranslation\": \"translation of the singular dative indefinite example in "),
       Action("Language"),
       Text("\",\n"),
       Text("\t\t\t\t\"genitiveExample\": \"simple example using the word \\\""),
       Action("Word"),
       Text("\\\" in singular genitive indefinite case\",\n"),
       Text("\t\t\t\t\"genitiveTranslation\": \"translation of the singular genitive indefinite example in "),
       Action("Language"),
       Text("\"\n"),
       Text("\t\t\t},\n"),
       Text("\t\t},\n"),
       Text("\t\t\"plural\": {\n"),
       Text("\t\t\t\"definite\": {\n"),
       Text("\t\t\t\t\"nominativeExample\": \"simple example using the word \\\""),
       Action("Word"),
       Text("\\\" in plural nominative definite case\",\n"),
       Text("\t\t\t\t\"nominativeTranslation\": \"translation of the plural nominative definite example in "),
       Action("Language"),
       Text("\",\n"),
       Text("\t\t\t\t\"accusativeExample\": \"simple example using the word \\\""),
       Action("Word"),
       Text("\\\" in plural accusative definite case\",\n"),
       Text("\t\t\t\t\"accusativeTranslation\": \"translation of the plural accusative definite example in "),
       Action("Language"),
       Text("\",\n"),
       Text("\t\t\t\t\"dativeExample\": \"simple example using the word \\\""),
       Action("Word"),
       Text("\\\" in plural dative definite case\",\n"),
       Text("\t\t\t\t\"dativeTranslation\": \"translation of the plural dative definite example in "),
       Action("Language"),
       Text("\",\n"),
       Text("\t\t\t\t\"genitiveExample\": \"simple example using the word \\\""),
       Action("Word"),
       Text("\\\" in plural genitive definite case\",\n"),
       Text("\t\t\t\t\"genitiveTranslation\": \"translation of the plural genitive definite example in "),
       Action("Language"),
       Text("\"\n"),
       Text("\t\t\t},\n"),
       Text("\t\t\t\"indefinite\": {\n"),
       Text("\t\t\t\t\"nominativeExample\": \"simple example using the word \\\""),
       Action("Word"),
       Text("\\\" in plural nominative indefinite case\",\n"),
       Text("\t\t\t\t\"nominativeTranslation\": \"translation of the plural nominative indefinite example in "),
       Action("Language"),
       Text("\",\n"),
       Text("\t\t\t\t\"accusativeExample\": \"simple example using the word \\\""),
       Action("Word"),
       Text("\\\" in plural accusative indefinite case\",\n"),
       Text("\t\t\t\t\"accusativeTranslation\": \"translation of the plural accusative indefinite example in "),
       Action("Language"),
       Text("\",\n"),
       Text("\t\t\t\t\"dativeExample\": \"simple example using the word \\\""),
       Action("Word"),
       Text("\\\" in plural dative indefinite case\",\n"),
       Text("\t\t\t\t\"dativeTranslation\": \"translation of the plural dative indefinite example in "),
       Action("Language"),
       Text("\",\n"),
       Text("\t\t\t\t\"genitiveExample\": \"simple example using the word \\\""),
       Action("Word"),
       Text("\\\" in plural genitive indefinite case\",\n"),
       Text("\t\t\t\t\"genitiveTranslation\": \"translation of the plural genitive indefinite example in "),
       Action("Language"),
       Text("\"\n"),
       Text("\t\t\t},\n"),
       Text("\t\t},\n"),
       Text("\t  }\n"),
       Text("    }\n"),
       Text("  ]\n"),
       Text("}\n"),
       Text("\n"),
       Text("If the input is not a German noun or contains multiple words that aren't a compound noun, set \"error\" to true and provide an appropriate error message.\n"),
       Text("If there are multiple possible interpretations, include each as a separate object in the data array.\n"),
       Text("Ensure ALL field values are properly escaped for JSON.") >>

\* html/template's escaper of a value in HTML text: its replacement table.
htmlReplacementTable(c) ==
    CASE c = "U+0000" -> <<"U+FFFD">>
      [] c = "\"" -> <<"&","#","3","4",";">>
      [] c = "&"  -> <<"&","a","m","p",";">>
      [] c = "'"  -> <<"&","#","3","9",";">>
      [] c = "+"  -> <<"&","#","4","3",";">>
      [] c = "<"  -> <<"&","l","t",";">>
      [] c = ">"  -> <<"&","g","t",";">>
      [] OTHER    -> <<c>>

\* What an action writes for a string value: every piece of the template is
\* HTML text (the template holds no '<'), so the value is HTML-escaped.
htmlEscaper(s) == Concat([i \in 1..Len(s) |-> htmlReplacementTable(s[i])])

\* tmpl.Execute(&buf, data), part_004 lines 116-128.
ExecuteTemplate(tmpl, data) ==
    Concat([i \in DOMAIN tmpl |->
               IF tmpl[i].kind = "text" THEN <<tmpl[i].s>> ELSE htmlEscaper(data[tmpl[i].s])])

\* The map Execute is given, part_004 lines 117-120.
TemplateData(r) == [Word |-> r.Word, Language |-> r.Language]

(***************************************************************************)
(* Extraction and classification of one candidate                          *)
(***************************************************************************)

\* A candidate without content: candidate.Content == nil or no parts.
HasNoContent(candidate) == ~candidate.hasContent \/ Len(candidate.parts) = 0

\* Lines 161-166: the texts of the candidate's parts, concatenated.
TextOf(candidate) == Concat(candidate.parts)

\* Classify that keeps the payload's data beside the model's error.
ClassifyKeepsData(payload) ==
    IF payload.Error
    THEN [Success |-> FALSE, Error |-> payload.ErrorMessage, Data |-> payload.Data]
    ELSE NewSuccessResponse(payload.Data)

\* Lines 197-201: the response for a decoded payload.
Classify(payload) ==
    IF payload.Error THEN NewErrorResponse(payload.ErrorMessage)
    ELSE NewSuccessResponse(payload.Data)

(***************************************************************************)
(* State                                                                   *)
(***************************************************************************)

VARIABLES
    inbound,     \* what the transport received: channel, method, word, language
    modelReply,  \* what the generative model will answer to the one call
    intended,    \* how the model's reply text was made: the payload it meant to write
    pc,          \* where the request is: handler, execute, generate, parse, return, done
    request,     \* the ArticleRequest, <<>> before it is built
    aiCalls,     \* calls of GenerateContent so far
    resp,        \* the candidates of the GenerateContentResponse
    idx,         \* parseGeminiResponse's loop position (1-based)
    response,    \* the ArticleResponse Execute returned, <<>> before it returns
    err,         \* the error Execute returned: "nil" or the text of the adapter's
    log,         \* the logger's entries
    output,      \* what the channel answered, <<>> before it does
    telegramToken, \* whether the configuration holds a Telegram token
    containers,  \* the Containers built so far, each with its BotHandler (or none)
    invokes,     \* the calls of Invoke in progress, one record each
    contents     \* the prompts sent to GenerateContent so far

\* The state of one request's pipeline, and of the function instance that
\* serves concurrent calls of Invoke.
pipelineVars == <<inbound, modelReply, intended, pc, request, aiCalls, resp, idx,
                  response, err, log, output, contents>>
invokeVars == <<telegramToken, containers, invokes>>

vars == <<pipelineVars, invokeVars>>

Entry(level, message, i) == [level |-> level, message |-> message, i |-> i]

\* What a channel answers: the status (HTTP status, the process's exit code),
\* the text written and the ArticleResponse it encodes (<<>> when none).
Answer(status, body, encoded) == [status |-> status, body |-> body, encoded |-> encoded]

(***************************************************************************)
(* The handlers up to the call of Execute                                  *)
(***************************************************************************)

\* console.Handler.ProcessRequest, lines 34-45
ProcessRequest ==
    /\ pc = "handler" /\ inbound.channel = "console"
    /\ log' = Append(log, Entry("info", "Processing console request", -1))
    /\ request' = <<NewArticleRequest(inbound.word, inbound.language)>>
    /\ pc' = "execute"
    /\ UNCHANGED <<invokeVars, contents, inbound, modelReply, intended, aiCalls, resp, idx, response, err, output>>

\* ArticleHandler.HandleArticleRequest, lines 100-162, and the error replies it
\* writes itself (writeErrorResponse).
HandleArticleRequest ==
    /\ pc = "handler" /\ inbound.channel = "http"
    /\ LET language == extractLanguageFromHeader(inbound.language)
           lang == IF language = <<>> THEN DefaultLanguage ELSE language
           refuse(message, status) ==
               /\ output' = <<Answer(status,
                                     EncoderEncode(NewErrorResponse(message), ArticleResponse),
                                     <<NewErrorResponse(message)>>)>>
               /\ pc' = "done"
               /\ UNCHANGED request
       IN  IF inbound.method = "OPTIONS"
           THEN /\ output' = <<Answer(200, <<>>, <<>>)>>
                /\ pc' = "done"
                /\ UNCHANGED <<request, log>>
           ELSE /\ log' = (IF language = <<>>
                           THEN Append(log, Entry("warning", "No language specified, defaulting to 'en'", -1))
                           ELSE log)
                        \o (IF inbound.method \in {"GET", "POST"} /\ ~inbound.decodes
                            THEN <<Entry("error", IF inbound.method = "GET"
                                                  THEN "Failed to parse form"
                                                  ELSE "Failed to decode JSON body", -1)>>
                            ELSE <<>>)
                /\ IF inbound.method \notin {"GET", "POST"}
                   THEN refuse(MsgMethodNotAllowed, 405)
                   ELSE IF ~inbound.decodes
                   THEN refuse(IF inbound.method = "GET" THEN MsgInvalidRequest ELSE MsgInvalidJSON, 400)
                   ELSE IF inbound.word = <<>>
                   THEN refuse(MsgWordRequired, 400)
                   ELSE /\ request' = <<NewArticleRequest(inbound.word, lang)>>
                        /\ pc' = "execute"
                        /\ UNCHANGED output
    /\ UNCHANGED <<invokeVars, contents, inbound, modelReply, intended, aiCalls, resp, idx, response, err>>

\* \w of Go's regexp: [0-9A-Za-z_].
WordChars ==
    Digits \cup {UpperCase[i] : i \in DOMAIN UpperCase}
    \cup {LowerCase[i] : i \in DOMAIN LowerCase} \cup {"_"}

RECURSIVE SkipWordChars(_, _)
\* The first position at or after i that holds no \w character.
SkipWordChars(s, i) ==
    IF i <= Len(s) /\ s[i] \in WordChars THEN SkipWordChars(s, i + 1) ELSE i

\* The library's command pattern ^(/\w+)(@(\w+))?(\s|$)(.+)? on a message
\* text: whether it matches, the command (group 1) and the bot name (group 3).
\* What follows a run of \w is never a \w character, so both runs are the
\* longest ones.
Command(text) ==
    LET none == [matched |-> FALSE, command |-> <<>>, botName |-> <<>>]
        a == SkipWordChars(text, 2)
        b == IF At(text, a) = "@" /\ SkipWordChars(text, a + 1) > a + 1
             THEN SkipWordChars(text, a + 1) ELSE a
    IN  IF At(text, 1) # "/" \/ a = 2 THEN none
        ELSE IF b <= Len(text) /\ text[b] \notin RegexpSpace THEN none
        ELSE [matched |-> TRUE, command |-> SubSeq(text, 1, a - 1),
              botName |-> Slice(text, a + 1, b - 1)]

\* The endpoints NewBotHandler registers, lines 50 and 52: "/start" and
\* tele.OnText.
StartCommand == <<"/","s","t","a","r","t">>
OnText == <<"U+0007","t","e","x","t">>

\* Bot.ProcessUpdate on a message with this text, for a bot whose user name is
\* me: the endpoint whose handler runs, <<>> when none does.  A message
\* without text is no text message; a text that starts with U+0007 is dropped;
\* a command addressed to another bot is dropped; a command with a handler
\* goes to it; any other text goes to the handler of OnText.
Endpoint(text, me) ==
    IF text = <<>> \/ text[1] = "U+0007" THEN <<>>
    ELSE IF /\ Command(text).matched /\ Command(text).botName # <<>>
            /\ FoldName(Command(text).botName) # FoldName(me)
    THEN <<>>
    ELSE IF Command(text).matched /\ Command(text).command = StartCommand
    THEN StartCommand
    ELSE OnText

\* The welcome text of handleStart, lines 75-84.
welcomeMessage ==
    << "U+1F1E9","U+1F1EA"," ","W","i","l","l","k","o","m","m","e","n","!"," ",
       "W","e","l","c","o","m","e","!"," ","U+0414","U+043E","U+0431","U+0440",
       "U+043E"," ","U+043F","U+043E","U+0436","U+0430","U+043B","U+043E",
       "U+0432","U+0430","U+0442","U+044C","!","\n","\n","I","'","m"," ","y",
       "o","u","r"," ","G","e","r","m","a","n"," ","A","r","t","i","c","l","e",
       " ","B","o","t","!"," ","S","e","n","d"," ","m","e"," ","a","n","y"," ",
       "G","e","r","m","a","n"," ","n","o","u","n",","," ","a","n","d"," ","I",
       "'","l","l"," ","h","e","l","p"," ","y","o","u"," ","d","e","t","e","r",
       "m","i","n","e"," ","t","h","e"," ","c","o","r","r","e","c","t"," ","a",
       "r","t","i","c","l","e"," ","(","d","e","r",","," ","d","i","e",","," ",
       "d","a","s",")"," ","a","l","o","n","g"," ","w","i","t","h"," ","u","s",
       "a","g","e"," ","e","x","a","m","p","l","e","s",".","\n","\n","J","u",
       "s","t"," ","t","y","p","e"," ","a"," ","G","e","r","m","a","n"," ","w",
       "o","r","d"," ","a","n","d"," ","I","'","l","l"," ","p","r","o","v","i",
       "d","e",":","\n","U+2022"," ","T","h","e"," ","c","o","r","r","e","c",
       "t"," ","a","r","t","i","c","l","e","\n","U+2022"," ","T","r","a","n",
       "s","l","a","t","i","o","n","\n","U+2022"," ","E","x","a","m","p","l",
       "e","s"," ","i","n"," ","d","i","f","f","e","r","e","n","t"," ","g","r",
       "a","m","m","a","t","i","c","a","l"," ","c","a","s","e","s","\n","\n",
       "T","r","y"," ","s","e","n","d","i","n","g"," ","m","e"," ","a"," ","w",
       "o","r","d"," ","l","i","k","e"," ","\"","H","a","u","s","\""," ","o",
       "r"," ","\"","K","a","t","z","e","\"","!" >>

\* Bot.ProcessUpdate for an update no registered handler takes: nothing is
\* sent.
ProcessUpdateUnhandled ==
    /\ pc = "handler" /\ inbound.channel = "telegram"
    /\ Endpoint(inbound.word, inbound.me) = <<>>
    /\ pc' = "done"
    /\ UNCHANGED <<invokeVars, contents, inbound, modelReply, intended, request, aiCalls, resp, idx,
                   response, err, log, output>>

\* BotHandler.handleStart
handleStart ==
    /\ pc = "handler" /\ inbound.channel = "telegram"
    /\ Endpoint(inbound.word, inbound.me) = StartCommand
    /\ output' = <<Answer(0, welcomeMessage, <<>>)>>
    /\ pc' = "done"
    /\ UNCHANGED <<invokeVars, contents, inbound, modelReply, intended, request, aiCalls, resp, idx,
                   response, err, log>>

\* BotHandler.handleText, lines 90-103, for a text the library hands to the
\* handler of OnText.
handleText ==
    /\ pc = "handler" /\ inbound.channel = "telegram"
    /\ Endpoint(inbound.word, inbound.me) = OnText
    /\ LET word == TrimSpace(inbound.word)
       IN  IF word = <<>>
           THEN /\ output' = <<Answer(0, MsgSendWord, <<>>)>>
                /\ pc' = "done"
                /\ UNCHANGED request
           ELSE /\ request' = <<NewArticleRequest(word, getUserLanguage(inbound.language))>>
                /\ pc' = "execute"
                /\ UNCHANGED output
    /\ UNCHANGED <<invokeVars, contents, inbound, modelReply, intended, aiCalls, resp, idx, response, err, log>>

(***************************************************************************)
(* DetermineArticleUseCase.Execute and GeminiService                       *)
(***************************************************************************)

\* Execute without the validation: every request goes to the AI service.
ExecuteWithoutValidation ==
    /\ pc = "execute"
    /\ log' = Append(log, Entry("info", "Processing article request", -1))
    /\ pc' = "generate"
    /\ UNCHANGED <<invokeVars, contents, inbound, modelReply, intended, request, aiCalls, resp, idx, output,
                   response, err>>

\* Execute, lines 32-53: validation, then the call of the AI service.
Execute ==
    /\ pc = "execute"
    /\ IF ~IsValid(request[1])
       THEN /\ log' = Append(log, Entry("warning", "Invalid article request", -1))
            /\ response' = <<NewErrorResponse(MsgWordEmpty)>>
            /\ err' = "nil"
            /\ pc' = "return"
       ELSE /\ log' = Append(log, Entry("info", "Processing article request", -1))
            /\ pc' = "generate"
            /\ UNCHANGED <<response, err>>
    /\ UNCHANGED <<invokeVars, contents, inbound, modelReply, intended, request, aiCalls, resp, idx, output>>

\* GenerateArticleInfo whose failed call is returned as a value, with a nil error.
GenerateArticleInfoSwallowsError ==
    /\ pc = "generate"
    /\ contents' = Append(contents, ExecuteTemplate(prompt, TemplateData(request[1])))
    /\ aiCalls' = aiCalls + 1
    /\ IF modelReply.fails
       THEN /\ log' = Append(log, Entry("error", "Failed to generate content with Gemini", -1))
            /\ response' = <<NewErrorResponse(MsgFailedToProcess)>>
            /\ err' = "nil"
            /\ pc' = "return"
            /\ UNCHANGED <<resp, idx>>
       ELSE /\ resp' = modelReply.candidates
            /\ idx' = 1
            /\ pc' = "parse"
            /\ UNCHANGED <<response, err, log>>
    /\ UNCHANGED <<invokeVars, inbound, modelReply, intended, request, output>>

\* GenerateArticleInfo, lines 104-146: the prompt is rendered and the model
\* called once; when the call fails Execute (lines 54-56) returns the error
\* with a "Failed to process request" response.
GenerateArticleInfo ==
    /\ pc = "generate"
    /\ contents' = Append(contents, ExecuteTemplate(prompt, TemplateData(request[1])))
    /\ aiCalls' = aiCalls + 1
    /\ IF modelReply.fails
       THEN /\ log' = Append(log, Entry("error", "Failed to generate content with Gemini", -1))
            /\ response' = <<NewErrorResponse(MsgFailedToProcess)>>
            /\ err' = modelReply.error
            /\ pc' = "return"
            /\ UNCHANGED <<resp, idx>>
       ELSE /\ resp' = modelReply.candidates
            /\ idx' = 1
            /\ pc' = "parse"
            /\ UNCHANGED <<response, err, log>>
    /\ UNCHANGED <<invokeVars, inbound, modelReply, intended, request, output>>

\* The empty reply answered by calling the model again.
NoCandidatesRetry ==
    /\ pc = "parse" /\ Len(resp) = 0
    /\ log' = Append(log, Entry("warning", "No candidates in Gemini response", -1))
    /\ IF aiCalls < 2
       THEN /\ pc' = "generate"
            /\ UNCHANGED <<response, err>>
       ELSE /\ response' = <<NewErrorResponse(MsgNoResponse)>>
            /\ err' = "nil"
            /\ pc' = "return"
    /\ UNCHANGED <<invokeVars, contents, inbound, modelReply, intended, request, aiCalls, resp, idx, output>>

\* parseGeminiResponse, lines 150-153
NoCandidates ==
    /\ pc = "parse" /\ Len(resp) = 0
    /\ log' = Append(log, Entry("warning", "No candidates in Gemini response", -1))
    /\ response' = <<NewErrorResponse(MsgNoResponse)>>
    /\ err' = "nil"
    /\ pc' = "return"
    /\ UNCHANGED <<invokeVars, contents, inbound, modelReply, intended, request, aiCalls, resp, idx, output>>

\* One turn of the loop, lines 156-159: the candidate has no content parts.
CandidateWithoutContent ==
    /\ pc = "parse" /\ idx <= Len(resp)
    /\ HasNoContent(resp[idx])
    /\ log' = Append(log, Entry("warning", "Candidate has no content parts", idx - 1))
    /\ idx' = idx + 1
    /\ UNCHANGED <<invokeVars, contents, inbound, modelReply, intended, pc, request, aiCalls, resp, response, err, output>>

\* One turn of the loop, lines 161-171: the candidate's parts hold no text.
CandidateWithoutText ==
    /\ pc = "parse" /\ idx <= Len(resp)
    /\ ~HasNoContent(resp[idx])
    /\ TextOf(resp[idx]) = <<>>
    /\ log' = Append(log, Entry("warning", "Candidate has no text content", idx - 1))
    /\ idx' = idx + 1
    /\ UNCHANGED <<invokeVars, contents, inbound, modelReply, intended, pc, request, aiCalls, resp, response, err, output>>

\* The loop turn that gives up at the first candidate that does not decode.
CandidateUnparsableAborts ==
    /\ pc = "parse" /\ idx <= Len(resp)
    /\ ~HasNoContent(resp[idx])
    /\ TextOf(resp[idx]) # <<>>
    /\ ~Unmarshal(CleanResponse(TextOf(resp[idx]))).ok
    /\ log' = Append(log, Entry("error", "Failed to parse JSON response", idx - 1))
    /\ response' = <<NewErrorResponse(MsgFailedToParse)>>
    /\ err' = "nil"
    /\ pc' = "return"
    /\ UNCHANGED <<invokeVars, contents, inbound, modelReply, intended, request, aiCalls, resp, idx, output>>

\* One turn of the loop, lines 173-195: the cleaned text does not decode.
CandidateUnparsable ==
    /\ pc = "parse" /\ idx <= Len(resp)
    /\ ~HasNoContent(resp[idx])
    /\ TextOf(resp[idx]) # <<>>
    /\ ~Unmarshal(CleanResponse(TextOf(resp[idx]))).ok
    /\ log' = Append(log, Entry("error", "Failed to parse JSON response", idx - 1))
    /\ idx' = idx + 1
    /\ UNCHANGED <<invokeVars, contents, inbound, modelReply, intended, pc, request, aiCalls, resp, response, err, output>>

\* One turn of the loop, lines 173-201: the cleaned text decodes, and the
\* payload's classification is returned.
CandidateParsed ==
    /\ pc = "parse" /\ idx <= Len(resp)
    /\ ~HasNoContent(resp[idx])
    /\ TextOf(resp[idx]) # <<>>
    /\ LET aiResp == Unmarshal(CleanResponse(TextOf(resp[idx])))
       IN  /\ aiResp.ok
           /\ response' = <<Classify(aiResp.v)>>
    /\ err' = "nil"
    /\ pc' = "return"
    /\ UNCHANGED <<invokeVars, contents, inbound, modelReply, intended, request, aiCalls, resp, idx, log, output>>

\* The end of the loop returned as a Go error instead of a failure response.
CandidatesExhaustedFault ==
    /\ pc = "parse" /\ Len(resp) > 0 /\ idx > Len(resp)
    /\ response' = <<NewErrorResponse(MsgFailedToParse)>>
    /\ err' = "parse"
    /\ pc' = "return"
    /\ UNCHANGED <<invokeVars, contents, inbound, modelReply, intended, request, aiCalls, resp, idx, log, output>>

\* Line 204: the loop ended without a candidate that decodes.
CandidatesExhausted ==
    /\ pc = "parse" /\ Len(resp) > 0 /\ idx > Len(resp)
    /\ response' = <<NewErrorResponse(MsgFailedToParse)>>
    /\ err' = "nil"
    /\ pc' = "return"
    /\ UNCHANGED <<invokeVars, contents, inbound, modelReply, intended, request, aiCalls, resp, idx, log, output>>

(***************************************************************************)
(* BotHandler.formatResponse: the chat message ("U+274C" is the cross mark, *)
(* "U+2500" the box-drawing line of the divider).                          *)
(***************************************************************************)

\* "❌ <b>Error:</b> "
FmtError ==
    << "U+274C"," ","<","b",">","E","r","r","o","r",":","<","/","b",">"," " >>

\* "❌ No information found for this word."
FmtNoInformation ==
    << "U+274C"," ","N","o"," ","i","n","f","o","r","m","a","t","i","o","n",
       " ","f","o","u","n","d"," ","f","o","r"," ","t","h","i","s"," ","w","o",
       "r","d","." >>

\* "\n\n" + strings.Repeat("─", 10) + "\n\n"
FmtDivider ==
    << "\n","\n","U+2500","U+2500","U+2500","U+2500","U+2500","U+2500",
       "U+2500","U+2500","U+2500","U+2500","\n","\n" >>

\* "📝 <b>Singular Examples:</b>\n"
FmtSingular ==
    << "U+1F4DD"," ","<","b",">","S","i","n","g","u","l","a","r"," ","E","x",
       "a","m","p","l","e","s",":","<","/","b",">","\n" >>

\* "📝 <b>Plural Examples:</b>\n"
FmtPlural ==
    << "U+1F4DD"," ","<","b",">","P","l","u","r","a","l"," ","E","x","a","m",
       "p","l","e","s",":","<","/","b",">","\n" >>

\* The header of one interpretation: "🇩🇪 <b>%s</b>\n" and "📖 <i>%s</i>\n\n".
FmtHeader(info) ==
    << "U+1F1E9","U+1F1EA"," ","<","b",">" >> \o info.WordWithArticle \o << "<","/","b",">","\n" >>
    \o << "U+1F4D6"," ","<","i",">" >> \o info.Translation \o << "<","/","i",">","\n","\n" >>

CaseNames ==
    << << "N","o","m","i","n","a","t","i","v","e" >>,
       << "A","c","c","u","s","a","t","i","v","e" >>,
       << "D","a","t","i","v","e" >>,
       << "G","e","n","i","t","i","v","e" >> >>

\* The example and the translation of case c in a TranslationsInfo.
ExampleOf(ti, c) ==
    CASE c = 1 -> ti.NominativeExample [] c = 2 -> ti.AccusativeExample
      [] c = 3 -> ti.DativeExample     [] c = 4 -> ti.GenitiveExample
TranslationOf(ti, c) ==
    CASE c = 1 -> ti.NominativeTranslation [] c = 2 -> ti.AccusativeTranslation
      [] c = 3 -> ti.DativeTranslation     [] c = 4 -> ti.GenitiveTranslation

\* The condition of a line that asks for the example only.
LineShownExampleOnly(ti, c) ==
    ti # Zero(TranslationsInfo) /\ ExampleOf(ti, c) # <<>>

\* The condition of one line of wr: the TranslationsInfo is not the zero value
\* and the case's example and translation are both non-empty.
LineShown(ti, c) ==
    ti # Zero(TranslationsInfo) /\ ExampleOf(ti, c) # <<>> /\ TranslationOf(ti, c) # <<>>

\* "• <b>%s %s:</b> %s / <i>%s</i>\n" for case c, kind "Definite" or "Indefinite"
CaseLine(ti, c, kind) ==
    << "U+2022"," ","<","b",">" >> \o CaseNames[c] \o <<" ">> \o kind
    \o << ":","<","/","b",">"," " >> \o ExampleOf(ti, c)
    \o << " ","/"," ","<","i",">" >> \o TranslationOf(ti, c) \o << "<","/","i",">","\n" >>

KindDefinite == << "D","e","f","i","n","i","t","e" >>
KindIndefinite == << "I","n","d","e","f","i","n","i","t","e" >>

\* The lines of a case with the indefinite line written first.
CaseGroupIndefiniteFirst(exampleInfo, c) ==
    LET def == IF LineShown(exampleInfo.Definite, c)
               THEN CaseLine(exampleInfo.Definite, c, KindDefinite) ELSE <<>>
        ind == IF LineShown(exampleInfo.Indefinite, c)
               THEN CaseLine(exampleInfo.Indefinite, c, KindIndefinite) ELSE <<>>
    IN  ind \o def \o (IF c < 4 /\ def \o ind # <<>> THEN <<"\n">> ELSE <<>>)

\* The lines wr writes for case c, and the blank line after the cases before
\* the genitive when one of the two was written.
CaseGroup(exampleInfo, c) ==
    LET def == IF LineShown(exampleInfo.Definite, c)
               THEN CaseLine(exampleInfo.Definite, c, KindDefinite) ELSE <<>>
        ind == IF LineShown(exampleInfo.Indefinite, c)
               THEN CaseLine(exampleInfo.Indefinite, c, KindIndefinite) ELSE <<>>
    IN  def \o ind \o (IF c < 4 /\ def \o ind # <<>> THEN <<"\n">> ELSE <<>>)

\* The closure wr of formatResponse, lines 136-185.
wr(exampleInfo) ==
    CaseGroup(exampleInfo, 1) \o CaseGroup(exampleInfo, 2)
    \o CaseGroup(exampleInfo, 3) \o CaseGroup(exampleInfo, 4)

\* Lines 187-208: one interpretation, the i-th (1-based) of the data.
FormatInfo(info, i) ==
    LET hasSingular == info.Example.Singular # Zero(ExampleInfo)
        hasPlural == info.Example.Plural # Zero(ExampleInfo)
    IN  (IF i > 1 THEN FmtDivider ELSE <<>>)
        \o FmtHeader(info)
        \o (IF hasSingular THEN FmtSingular \o wr(info.Example.Singular) ELSE <<>>)
        \o (IF hasPlural
            THEN (IF hasSingular THEN <<"\n">> ELSE <<>>) \o FmtPlural \o wr(info.Example.Plural)
            ELSE <<>>)

\* formatResponse without the branch for a success without data.
formatResponseWithoutEmptyCheck(r) ==
    IF ~r.Success THEN FmtError \o r.Error
    ELSE Concat([i \in 1..Len(r.Data) |-> FormatInfo(r.Data[i], i)])

\* BotHandler.formatResponse
formatResponse(r) ==
    IF ~r.Success THEN FmtError \o r.Error
    ELSE IF Len(r.Data) = 0 THEN FmtNoInformation
    ELSE Concat([i \in 1..Len(r.Data) |-> FormatInfo(r.Data[i], i)])

(***************************************************************************)
(* The handlers after Execute returned                                     *)
(***************************************************************************)

\* console.Handler.ProcessRequest, lines 48-64, and main, lines 34-39: the
\* JSON text is printed, or the error ends the process: log.Fatalf writes
\* "Failed to process request: " and the error's text (after the date and
\* time, left out here) and exits with status 1.
ConsoleReply ==
    /\ pc = "return" /\ inbound.channel = "console"
    /\ IF err # "nil"
       THEN /\ log' = Append(log, Entry("error", "Failed to process console request", -1))
            /\ output' = <<Answer(1, MsgFatal \o <<err>> \o <<"\n">>, <<>>)>>
       ELSE /\ output' = <<Answer(0, MarshalIndent(response[1], ArticleResponse) \o <<"\n">>,
                                  response)>>
            /\ UNCHANGED log
    /\ pc' = "done"
    /\ UNCHANGED <<invokeVars, contents, inbound, modelReply, intended, request, aiCalls, resp, idx, response, err>>

\* The HTTP reply that writes Execute's response whatever the error.
HTTPReplyWithoutErrorCheck ==
    /\ pc = "return" /\ inbound.channel = "http"
    /\ output' = <<Answer(200, EncoderEncode(response[1], ArticleResponse), response)>>
    /\ pc' = "done"
    /\ UNCHANGED <<invokeVars, contents, inbound, modelReply, intended, request, aiCalls, resp, idx, response, err, log>>

\* ArticleHandler.HandleArticleRequest, lines 165-177
HTTPReply ==
    /\ pc = "return" /\ inbound.channel = "http"
    /\ IF err # "nil"
       THEN /\ log' = Append(log, Entry("error", "Use case execution failed", -1))
            /\ output' = <<Answer(500,
                                  EncoderEncode(NewErrorResponse(MsgInternalError), ArticleResponse),
                                  <<NewErrorResponse(MsgInternalError)>>)>>
       ELSE /\ output' = <<Answer(200, EncoderEncode(response[1], ArticleResponse), response)>>
            /\ UNCHANGED log
    /\ pc' = "done"
    /\ UNCHANGED <<invokeVars, contents, inbound, modelReply, intended, request, aiCalls, resp, idx, response, err>>

\* BotHandler.handleText, lines 106-113
TelegramReply ==
    /\ pc = "return" /\ inbound.channel = "telegram"
    /\ IF err # "nil"
       THEN output' = <<Answer(0, MsgSorry, <<>>)>>
       ELSE output' = <<Answer(0, formatResponse(response[1]), response)>>
    /\ pc' = "done"
    /\ UNCHANGED <<invokeVars, contents, inbound, modelReply, intended, request, aiCalls, resp, idx, response, err, log>>

(***************************************************************************)
(* The requests and the model replies that are explored                     *)
(***************************************************************************)

\* The longest candidate list of a reply.
MaxCandidates == 2

Words ==
    { <<>>, <<" ">>, <<"H","a","u","s">>, <<" ","H","a","u","s"," ">>,
      <<"K","&","K","<","'","\"","+",">">> }

\* Language arguments, Accept-Language headers and Telegram language codes.
Languages ==
    { <<>>, <<"d","e">>, <<"p","t","-","B","R">>,
      <<"e","n","-","U","S",",","e","n",";","q","=","0",".","9">> }

\* The user name of the bot in the explored runs.
BotUsername == <<"a","r","t","i","k","e","l","_","b","o","t">>

\* A request as a channel receives it; me is the bot's user name, which the
\* chat channel knows.
Inbound(channel, method, decodes, word, language) ==
    [channel |-> channel, method |-> method, decodes |-> decodes,
     word |-> word, language |-> language, me |-> BotUsername]

\* Message texts of the chat channel that are commands or look like one, a
\* text that starts with U+0007 and a text of a no-break space.
ChatTexts ==
    { <<"/","s","t","a","r","t">>,
      <<"/","s","t","a","r","t"," ","n","o","w">>,
      <<"/","s","t","a","r","t","@","A","r","t","i","k","e","l","_","B","o","t">>,
      <<"/","s","t","a","r","t","@","o","t","h","e","r">>,
      <<"/","s","t","a","r","t","-","x">>,
      <<"/","S","t","a","r","t">>,
      <<"U+0007","H","a","u","s">>,
      <<"U+00A0">>,
      <<"U+00A0","H","a","u","s","U+2003">> }

Inbounds ==
    {Inbound(c, "-", TRUE, w, l) : c \in {"console", "telegram"}, w \in Words, l \in Languages}
    \cup {Inbound("http", m, d, w, l) :
            m \in {"GET", "POST"}, d \in BOOLEAN, w \in Words, l \in Languages}
    \cup {Inbound("http", m, TRUE, <<"H","a","u","s">>, <<>>) : m \in {"PUT", "OPTIONS"}}
    \cup {Inbound("telegram", "-", TRUE, w, <<>>) : w \in ChatTexts}
    \cup {Inbound("http", "GET", TRUE, <<"H","a","u","s">>, l) :
            l \in {<<"U+00A0">>, <<"U+00A0","d","e">>, <<"d","e","U+00A0",",","e","n">>}}

\* A request for "Haus" on each channel.
PlainInbounds ==
    {Inbound(c, IF c = "http" THEN "GET" ELSE "-", TRUE, <<"H","a","u","s">>, <<>>) :
        c \in {"console", "http", "telegram"}}

\* String values: plain, with commas, braces and brackets, and with a comma
\* right before a closing brace or bracket.
SPlain == <<"d","a","s">>
SBrackets == <<"[","a",",","b","]","{","}">>
SCommaBrace == <<"a",",","}">>
SCommaBracket == <<"a",","," ","]">>
\* A value with a letter outside ASCII, control characters, a line separator,
\* a quote and a backslash.
SControl == <<"c","a","f","U+00E9","\f","U+0008","U+0001","U+2028","\"","\\">>
StringValues == {SPlain, SBrackets, SCommaBrace, SCommaBracket, SControl}

Info(word, translation, example) ==
    [Zero(ArticleInfo) EXCEPT !.WordWithArticle = word,
                              !.Translation = translation,
                              !.Example.Singular.Definite.NominativeExample = example]

Infos == {Info(w, <<"b">>, e) : w \in StringValues, e \in {<<>>, SBrackets}}

Payload(error, errorMessage, dataIn) ==
    [Error |-> error, ErrorMessage |-> errorMessage, Data |-> dataIn]

\* Payloads {error:false, data:D}.
SuccessPayloads ==
    {Payload(FALSE, <<>>, <<>>)}
    \cup {Payload(FALSE, <<>>, <<i>>) : i \in Infos}
    \cup {Payload(FALSE, <<>>, <<Info(SPlain, <<"b">>, <<>>), Info(w, <<"c">>, <<>>)>>) :
            w \in {SBrackets, SCommaBrace}}

\* Payloads of a model-reported error, some with data that must not be returned.
ErrorPayloads ==
    {Payload(TRUE, m, d) : m \in {<<>>, <<"n","o"," ","n","o","u","n">>, SCommaBrace},
                           d \in {<<>>, <<Info(SPlain, <<"b">>, <<>>)>>}}

Payloads == SuccessPayloads \cup ErrorPayloads

\* How a reply text was made: the payload meant, the bare JSON object that
\* states it, and the prose and trailing commas put around and into it.
Intent(kind, payload, bare, prefix, suffix, trailer) ==
    [kind |-> kind, payload |-> payload, bare |-> bare,
     prefix |-> prefix, suffix |-> suffix, trailer |-> trailer]

NoIntent == Intent("none", Zero(aiResponse), <<>>, <<>>, <<>>, <<>>)

Candidate(hasContent, parts) == [hasContent |-> hasContent, parts |-> parts]

\* What GenerateContent returns: a response with candidates and a nil error.
Reply(fails, candidates) == [fails |-> fails, candidates |-> candidates, error |-> "nil"]

\* What GenerateContent returns when the call fails: no response and an error,
\* whose text stands in the model as one piece.
FailedReply(error) == [fails |-> TRUE, candidates |-> <<>>, error |-> error]

ErrorTexts == {"rpc error: deadline exceeded", "googleapi: Error 429: quota exceeded"}

Input(in, reply, intent) == [inbound |-> in, reply |-> reply, intended |-> intent]

\* A reply of one candidate with one text part.
OneText(text) == Reply(FALSE, <<Candidate(TRUE, <<text>>)>>)

\* Texts for the candidates of longer replies.
TextSuccess == Marshal(Payload(FALSE, <<>>, <<Info(SPlain, <<"b">>, <<>>)>>), aiResponse)
TextModelError == Marshal(Payload(TRUE, <<"n","o"," ","n","o","u","n">>, <<>>), aiResponse)
TextTruncated == <<"{","\"","e","r","r","o","r","\"",":","f","a","l">>
TextNoObject == <<"S","o","r","r","y",".">>
TextWrongType == <<"{","\"","d","a","t","a","\"",":","{","}","}">>

Candidates ==
    { Candidate(FALSE, <<>>), Candidate(TRUE, <<>>), Candidate(TRUE, << <<>> >>),
      Candidate(TRUE, <<TextSuccess>>), Candidate(TRUE, <<TextModelError>>),
      Candidate(TRUE, <<TextTruncated>>), Candidate(TRUE, <<TextNoObject>>),
      Candidate(TRUE, <<TextWrongType>>),
      Candidate(TRUE, <<<<"{","\"","e","r","r","o","r","\"",":","t","r">>, <<>>, <<"u","e",",","\"","e","r","r","o","r","M","e","s","s","a","g","e","\"",":","\"","x","\"","}">>>>) }

CandidateLists == UNION {[1..n -> Candidates] : n \in 0..MaxCandidates}

\* The replies every kind of request is run with.
CoreReplies ==
    {FailedReply(e) : e \in ErrorTexts}
    \cup
    { Reply(FALSE, <<>>), OneText(TextSuccess), OneText(TextModelError),
      OneText(TextTruncated) }

Prefixes == { <<>>, <<"H","e","r","e"," ","i","t"," ","i","s",":","\n">>, <<"U+0060","U+0060","U+0060","j","s","o","n","\n">>, <<"{","s","e","e","}"," ">>, <<"}"," ">>, <<"{","\"","k","\"",":">> }
Suffixes == { <<>>, <<"\n","U+0060","U+0060","U+0060">>, <<"\n","U+0060","U+0060","U+0060","\n","D","o","n","e",".">>, <<" ","{","o","k","}">>, <<" ","{">>, <<"}">> }
Trailers == { <<",">>, <<","," ","\n">> }

\* Bare JSON objects: json.Marshal's text and an indented one.
WrappedPayloads ==
    { Payload(FALSE, <<>>, <<>>), Payload(FALSE, <<>>, <<Info(SBrackets, <<"b">>, <<>>)>>),
      Payload(FALSE, <<>>, <<Info(SCommaBrace, <<"b">>, <<>>)>>),
      Payload(TRUE, <<"n","o"," ","n","o","u","n">>, <<>>) }

CanonicalInputs ==
    {Input(in, OneText(Marshal(p, aiResponse)),
           Intent("canonical", p, Marshal(p, aiResponse), <<>>, <<>>, <<>>)) :
        in \in {Inbound("console", "-", TRUE, <<"H","a","u","s">>, <<>>)}, p \in Payloads}

WrappedInputs ==
    {Input(Inbound("console", "-", TRUE, <<"H","a","u","s">>, <<>>),
           OneText(x.prefix \o Render(ToTree(x.p, aiResponse), x.style, 0) \o x.suffix),
           Intent("wrapped", x.p, Render(ToTree(x.p, aiResponse), x.style, 0),
                  x.prefix, x.suffix, <<>>)) :
        x \in [p : WrappedPayloads, style : {Compact, Indented},
               prefix : Prefixes, suffix : Suffixes]}

CommaInputs ==
    {Input(Inbound("console", "-", TRUE, <<"H","a","u","s">>, <<>>),
           OneText(Render(ToTree(x.p, aiResponse), [indent |-> x.indent, trailer |-> x.trailer], 0)),
           Intent("commas", x.p,
                  Render(ToTree(x.p, aiResponse), [indent |-> x.indent, trailer |-> <<>>], 0),
                  <<>>, <<>>, x.trailer)) :
        x \in [p : Payloads, indent : BOOLEAN, trailer : Trailers]}
    \cup {Input(Inbound("console", "-", TRUE, <<"H","a","u","s">>, <<>>),
                OneText(<<"{","\"","a","\"",":","1",",","}">>),
                Intent("commas", Zero(aiResponse), <<"{","\"","a","\"",":","1","}">>, <<>>, <<>>, <<",">>))}

\* Candidate texts with \u and \b escapes (a surrogate pair and a lone
\* surrogate among them), with a key written with the long s, with the key
\* "data" three times, and with a \u escape of no four digits; each with the
\* payload it decodes to.
TextEscapes ==
    << "{","\"","e","r","r","o","r","\"",":","t","r","u","e",",","\"","e","r",
       "r","o","r","M","e","s","s","a","g","e","\"",":","\"","c","a","f","\\",
       "u","0","0","e","9"," ","\\","u","0","0","4","1","\\","b","\\","u","D",
       "8","3","D","\\","u","d","e","0","0","\\","u","d","8","3","d","\\","u",
       "0","0","0","A","\"","}" >>
PayloadEscapes ==
    Payload(TRUE, <<"c","a","f","U+00E9"," ","A","U+0008","U+1F600","U+FFFD","\n">>, <<>>)
TextLongS ==
    << "{","\"","e","r","r","o","r","M","e","U+017F","s","a","g","e","\"",":",
       "\"","m","\"",",","\"","e","r","r","o","r","\"",":","t","r","u","e","}" >>
PayloadLongS == Payload(TRUE, <<"m">>, <<>>)
TextDataAgain ==
    << "{","\"","d","a","t","a","\"",":","[","{","\"","t","r","a","n","s","l",
       "a","t","i","o","n","\"",":","\"","x","\"","}",",","{","\"","t","r","a",
       "n","s","l","a","t","i","o","n","\"",":","\"","y","\"","}","]",",","\"",
       "d","a","t","a","\"",":","[","{","}","]",",","\"","d","a","t","a","\"",
       ":","[","{","}",",","{","}","]","}" >>
PayloadDataAgain ==
    Payload(FALSE, <<>>, <<Info(<<>>, <<"x">>, <<>>), Info(<<>>, <<"y">>, <<>>)>>)
TextBadEscape ==
    << "{","\"","e","r","r","o","r","M","e","s","s","a","g","e","\"",":","\"",
       "\\","u","0","0","z","z","\"","}" >>

DecodedInputs ==
    {Input(in, OneText(x[1]), Intent("decoded", x[2], x[1], <<>>, <<>>, <<>>)) :
        in \in PlainInbounds,
        x \in {<<TextEscapes, PayloadEscapes>>, <<TextLongS, PayloadLongS>>,
               <<TextDataAgain, PayloadDataAgain>>}}
    \cup {Input(in, Reply(FALSE, <<Candidate(TRUE, <<TextBadEscape>>), Candidate(TRUE, <<TextLongS>>)>>),
                Intent("decoded", PayloadLongS, TextLongS, <<>>, <<>>, <<>>)) :
            in \in PlainInbounds}

\* Scenario D: the only candidate is a json code fence around
\* {"error":false,"data":[]}, with commentary after it, on the chat channel.
ScenarioDObject ==
    << "{","\"","e","r","r","o","r","\"",":","f","a","l","s","e",",","\"","d",
       "a","t","a","\"",":","[","]","}" >>
ScenarioDText ==
    << "U+0060","U+0060","U+0060","j","s","o","n","\n","{","\"","e","r","r",
       "o","r","\"",":","f","a","l","s","e",",","\"","d","a","t","a","\"",":",
       "[","]","}","\n","U+0060","U+0060","U+0060","\n","T","h","e"," ","w",
       "o","r","d"," ","i","s"," ","n","o","t"," ","i","n"," ","m","y"," ","d",
       "i","c","t","i","o","n","a","r","y","." >>
ScenarioDInput ==
    Input(Inbound("telegram", "-", TRUE, <<"H","a","u","s">>, <<"e","n">>),
          OneText(ScenarioDText),
          Intent("scenarioD", Payload(FALSE, <<>>, <<>>), ScenarioDObject,
                 << "U+0060","U+0060","U+0060","j","s","o","n","\n" >>,
                 << "\n","U+0060","U+0060","U+0060","\n","T","h","e"," ","w","o","r","d",
       " ","i","s"," ","n","o","t"," ","i","n"," ","m","y"," ","d","i","c","t",
       "i","o","n","a","r","y","." >>, <<>>))

Inputs ==
    {Input(in, r, NoIntent) : in \in Inbounds, r \in CoreReplies}
    \cup {Input(in, Reply(FALSE, cs), NoIntent) : in \in PlainInbounds, cs \in CandidateLists}
    \cup CanonicalInputs \cup WrappedInputs \cup CommaInputs
    \cup {ScenarioDInput} \cup DecodedInputs

(***************************************************************************)
(* Specification                                                           *)
(***************************************************************************)

Init ==
    /\ \E in \in Inputs :
          /\ inbound = in.inbound
          /\ modelReply = in.reply
          /\ intended = in.intended
    /\ pc = "handler"
    /\ request = <<>>
    /\ aiCalls = 0
    /\ resp = <<>>
    /\ idx = 0
    /\ response = <<>>
    /\ err = "nil"
    /\ log = <<>>
    /\ output = <<>>
    /\ telegramToken = TRUE
    /\ containers = <<>>
    /\ invokes = <<>>
    /\ contents = <<>>

Next ==
    \/ ProcessRequest
    \/ HandleArticleRequest
    \/ ProcessUpdateUnhandled
    \/ handleStart
    \/ handleText
    \/ Execute
    \/ GenerateArticleInfo
    \/ NoCandidates
    \/ CandidateWithoutContent
    \/ CandidateWithoutText
    \/ CandidateUnparsable
    \/ CandidateParsed
    \/ CandidatesExhausted
    \/ ConsoleReply
    \/ HTTPReply
    \/ TelegramReply

Spec == Init /\ [][Next]_vars

(***************************************************************************)
(* Concurrent calls of Invoke on one function instance                     *)
(***************************************************************************)

\* The most calls of Invoke in progress at once.
MaxInvokes == 2

\* What a call of Invoke received: the path, the method, whether the
\* Content-Type holds application/json, whether the body can be read, whether
\* the body decodes to a Telegram update with ID > 0 and the text of its
\* message, and what HandleArticleRequest finds in it: whether the form or the
\* body decodes, the word, and whether Execute fails for it.
InvokeRequest(path, method, json, readable, update, text, decodes, word, fails) ==
    [path |-> path, method |-> method, json |-> json, readable |-> readable,
     update |-> update, text |-> text, decodes |-> decodes, word |-> word,
     fails |-> fails]

\* An update with a message text: its body is a JSON object without "word".
UpdateRequest(text) ==
    InvokeRequest("/", "POST", TRUE, TRUE, TRUE, text, TRUE, <<>>, FALSE)

\* A request that is no update.
APIRequest(path, method, json, decodes, word, fails) ==
    InvokeRequest(path, method, json, TRUE, FALSE, <<>>, decodes, word, fails)

InvokeRequests ==
    { UpdateRequest(<<"H","a","u","s">>),
      UpdateRequest(<<"/","s","t","a","r","t">>),
      UpdateRequest(<<"/","s","t","a","r","t","@","o","t","h","e","r">>),
      UpdateRequest(<<>>),
      InvokeRequest("/", "POST", TRUE, FALSE, FALSE, <<>>, FALSE, <<>>, FALSE),
      APIRequest("/article", "GET", FALSE, TRUE, <<"H","a","u","s">>, FALSE),
      APIRequest("/article", "GET", FALSE, TRUE, <<>>, FALSE),
      APIRequest("/article", "PUT", FALSE, TRUE, <<>>, FALSE),
      APIRequest("/article", "OPTIONS", FALSE, TRUE, <<>>, FALSE),
      APIRequest("/", "GET", FALSE, TRUE, <<"H","a","u","s">>, TRUE),
      APIRequest("/", "POST", TRUE, TRUE, <<"H","a","u","s">>, FALSE),
      APIRequest("/", "POST", TRUE, FALSE, <<>>, FALSE),
      APIRequest("/health", "GET", FALSE, TRUE, <<>>, FALSE),
      APIRequest("/x", "GET", FALSE, TRUE, <<>>, FALSE) }

\* What a call meets in its environment: nothing, a request context that is
\* done already, a logger, a tracer or a client that cannot be set up, or a
\* bot that cannot be created.
InvokeEnvs == {"ok", "ctxErr", "loggerFails", "tracerFails", "clientFails", "botFails"}

\* The environments in which NewContainer returns an error.
ContainerFails == {"loggerFails", "tracerFails", "clientFails"}

\* Contexts: the context of request i and the span contexts made from it.
NoCtx == [request |-> 0, spans |-> <<>>]
RequestCtx(i) == [request |-> i, spans |-> <<>>]
StartSpan(ctx, name) == [ctx EXCEPT !.spans = Append(@, name)]

\* Invoke, line 61: the span context of call i.
SpanCtx(i) == StartSpan(RequestCtx(i), "Application Invoke")

\* One call of Invoke: what it received and met, where it is, the container
\* it built, the value the middleware stored under "invokeCtx", the context
\* its handler worked with, the HTTP status it answered, what Invoke and
\* NewContainer logged for it, and (for the record) the other calls that had
\* set their context and not yet finished when it read its own.
InvokeCall(req, env) ==
    [req |-> req, env |-> env, pc |-> "start", container |-> 0, invokeCtx |-> NoCtx,
     ctx |-> NoCtx, status |-> 0, logged |-> <<>>, overlapped |-> {}]

\* The calls that are explored: every request in a sound environment, and an
\* update in each of the others.
InvokeCalls ==
    {InvokeCall(r, "ok") : r \in InvokeRequests}
    \cup {InvokeCall(UpdateRequest(<<"H","a","u","s">>), e) : e \in InvokeEnvs}

\* NewBotHandler, part_002 lines 30-54: no handler when the bot cannot be
\* created; else the handler keeps the context it was built with until
\* SetContext replaces it.
NewBotHandler(ctx, fails) == IF fails THEN <<>> ELSE <<[ctx |-> ctx]>>

\* NewContainer, part_004 lines 241-289: what it logs in each environment.
ContainerLog(env) ==
    CASE env = "tracerFails" -> <<[level |-> "Critical", message |-> "failed to initialize tracer"]>>
      [] env = "clientFails" -> <<[level |-> "Critical", message |-> "failed to create Gemini client"]>>
      [] env = "botFails" /\ telegramToken ->
           <<[level |-> "Error", message |-> "failed to initialize Telegram bot"]>>
      [] OTHER -> <<>>

\* NewContainer with a single BotHandler kept for all calls.
NewContainerShared ==
    \E i \in DOMAIN invokes :
        /\ invokes[i].pc = "start"
        /\ IF invokes[i].env \in {"ctxErr"} \cup ContainerFails
           THEN /\ invokes' = [invokes EXCEPT ![i].status = 500, ![i].pc = "done",
                                              ![i].logged = ContainerLog(invokes[i].env)]
                /\ UNCHANGED containers
           ELSE /\ IF containers = <<>>
                   THEN containers' =
                          <<[TelegramBot |->
                               IF telegramToken
                               THEN NewBotHandler(RequestCtx(i), invokes[i].env = "botFails")
                               ELSE <<>>]>>
                   ELSE UNCHANGED containers
                /\ invokes' = [invokes EXCEPT ![i].container = 1, ![i].pc = "route",
                                              ![i].logged = ContainerLog(invokes[i].env)]
        /\ UNCHANGED <<pipelineVars, telegramToken>>

\* Invoke, lines 39-55, and NewContainer, part_004 lines 237-303: a call
\* whose context is done, or whose container cannot be built, is answered
\* 500; else the call builds a Container of its own, with a BotHandler when a
\* token is configured and the bot can be created.
NewContainer ==
    \E i \in DOMAIN invokes :
        /\ invokes[i].pc = "start"
        /\ IF invokes[i].env \in {"ctxErr"} \cup ContainerFails
           THEN /\ invokes' = [invokes EXCEPT ![i].status = 500, ![i].pc = "done",
                                              ![i].logged = ContainerLog(invokes[i].env)]
                /\ UNCHANGED containers
           ELSE /\ containers' =
                     Append(containers,
                            [TelegramBot |->
                               IF telegramToken
                               THEN NewBotHandler(RequestCtx(i), invokes[i].env = "botFails")
                               ELSE <<>>])
                /\ invokes' = [invokes EXCEPT ![i].container = Len(containers) + 1,
                                              ![i].pc = "route",
                                              ![i].logged = ContainerLog(invokes[i].env)]
        /\ UNCHANGED <<pipelineVars, telegramToken>>

\* Invoke, lines 61-108: the span is started and the request routed.
InvokeRoute ==
    \E i \in DOMAIN invokes :
        /\ invokes[i].pc = "route"
        /\ LET bot == containers[invokes[i].container].TelegramBot
               req == invokes[i].req
           IN  invokes' =
                 CASE req.path = "/" /\ req.method = "POST" /\ req.json /\ ~req.readable ->
                        [invokes EXCEPT
                           ![i].pc = "done", ![i].status = 400,
                           ![i].logged = Append(@, [level |-> "Error",
                                                    message |-> "Failed to read request body"])]
                   [] req.path = "/" /\ req.method = "POST" /\ req.json /\ req.readable
                      /\ req.update /\ bot # <<>> ->
                        [invokes EXCEPT ![i].pc = "SetContext"]
                   [] req.path = "/" /\ req.method = "POST" /\ req.json /\ req.readable
                      /\ ~(req.update /\ bot # <<>>) ->
                        [invokes EXCEPT ![i].pc = "HandleArticleRequest"]
                   [] ~(req.path = "/" /\ req.method = "POST" /\ req.json)
                      /\ req.path \in {"/", "/article"} ->
                        [invokes EXCEPT ![i].pc = "HandleArticleRequest"]
                   [] req.path = "/health" ->
                        [invokes EXCEPT ![i].pc = "done", ![i].status = 200]
                   [] OTHER ->
                        [invokes EXCEPT ![i].pc = "done", ![i].status = 404]
        /\ UNCHANGED <<pipelineVars, telegramToken, containers>>

\* Invoke, line 85, and BotHandler.SetContext: h.ctx = spanCtx.
SetContext ==
    \E i \in DOMAIN invokes :
        /\ invokes[i].pc = "SetContext"
        /\ containers' = [containers EXCEPT
                            ![invokes[i].container].TelegramBot[1].ctx = SpanCtx(i)]
        /\ invokes' = [invokes EXCEPT ![i].pc = "ProcessUpdate"]
        /\ UNCHANGED <<pipelineVars, telegramToken>>

\* Invoke, lines 86-88, for an update no handler takes: neither the middleware
\* nor a handler runs, and the webhook is answered 200.
InvokeProcessUpdateUnhandled ==
    \E i \in DOMAIN invokes :
        /\ invokes[i].pc = "ProcessUpdate"
        /\ Endpoint(invokes[i].req.text, BotUsername) = <<>>
        /\ invokes' = [invokes EXCEPT ![i].status = 200, ![i].pc = "done"]
        /\ UNCHANGED <<pipelineVars, telegramToken, containers>>

\* Invoke, line 86, and SetContextMiddleware, which runs before the handler of
\* the update's endpoint: c.Set("invokeCtx", h.ctx).
SetContextMiddleware ==
    \E i \in DOMAIN invokes :
        /\ invokes[i].pc = "ProcessUpdate"
        /\ Endpoint(invokes[i].req.text, BotUsername) # <<>>
        /\ invokes' = [invokes EXCEPT
                         ![i].invokeCtx = containers[invokes[i].container].TelegramBot[1].ctx,
                         ![i].overlapped = {j \in DOMAIN invokes \ {i} :
                                              invokes[j].pc \in {"ProcessUpdate", "handleText",
                                                                 "handleStart"}},
                         ![i].pc = IF Endpoint(invokes[i].req.text, BotUsername) = StartCommand
                                   THEN "handleStart" ELSE "handleText"]
        /\ UNCHANGED <<pipelineVars, telegramToken, containers>>

\* handleText, lines 91-92, and Invoke, lines 87-88: the handler works under
\* c.Get("invokeCtx"); the webhook is answered 200.
InvokeHandleText ==
    \E i \in DOMAIN invokes :
        /\ invokes[i].pc = "handleText"
        /\ invokes' = [invokes EXCEPT
                         ![i].ctx = StartSpan(invokes[i].invokeCtx, "Telegram Text Message"),
                         ![i].status = 200,
                         ![i].pc = "done"]
        /\ UNCHANGED <<pipelineVars, telegramToken, containers>>

\* handleStart, lines 71-72, and Invoke, lines 87-88: the handler works under
\* c.Get("invokeCtx"); the webhook is answered 200.
InvokeHandleStart ==
    \E i \in DOMAIN invokes :
        /\ invokes[i].pc = "handleStart"
        /\ invokes' = [invokes EXCEPT
                         ![i].ctx = StartSpan(invokes[i].invokeCtx, "Telegram Start Command"),
                         ![i].status = 200,
                         ![i].pc = "done"]
        /\ UNCHANGED <<pipelineVars, telegramToken, containers>>

\* The status HandleArticleRequest answers a request with, lines 100-178.
HandlerStatus(req) ==
    IF req.method = "OPTIONS" THEN 200
    ELSE IF req.method \notin {"GET", "POST"} THEN 405
    ELSE IF ~req.decodes THEN 400
    ELSE IF req.word = <<>> THEN 400
    ELSE IF req.fails THEN 500
    ELSE 200

\* Invoke, lines 94 and 98, and HandleArticleRequest: but for a preflight
\* request the HTTP handler works under the request's context, which line 63
\* set to the span context.
InvokeHandleArticleRequest ==
    \E i \in DOMAIN invokes :
        /\ invokes[i].pc = "HandleArticleRequest"
        /\ invokes' = [invokes EXCEPT
                         ![i].ctx = IF invokes[i].req.method = "OPTIONS" THEN NoCtx
                                    ELSE StartSpan(SpanCtx(i), "HTTP Handler"),
                         ![i].status = HandlerStatus(invokes[i].req),
                         ![i].pc = "done"]
        /\ UNCHANGED <<pipelineVars, telegramToken, containers>>

\* Calls of Invoke arrive on a function instance that serves no pipeline
\* step of its own: the pipeline's variables rest at a request just received.
InitInvoke ==
    /\ inbound = Inbound("telegram", "-", TRUE, <<"H","a","u","s">>, <<>>)
    /\ modelReply = Reply(FALSE, <<>>)
    /\ intended = NoIntent
    /\ pc = "handler"
    /\ request = <<>>
    /\ aiCalls = 0
    /\ resp = <<>>
    /\ idx = 0
    /\ response = <<>>
    /\ err = "nil"
    /\ log = <<>>
    /\ output = <<>>
    /\ telegramToken \in BOOLEAN
    /\ containers = <<>>
    /\ invokes \in [1..MaxInvokes -> InvokeCalls]
    /\ contents = <<>>

NextInvoke ==
    \/ NewContainer
    \/ InvokeRoute
    \/ SetContext
    \/ InvokeProcessUpdateUnhandled
    \/ SetContextMiddleware
    \/ InvokeHandleText
    \/ InvokeHandleStart
    \/ InvokeHandleArticleRequest

SpecInvoke == InitInvoke /\ [][NextInvoke]_vars

(***************************************************************************)
(* formatResponse applied to the responses Execute can return              *)
(***************************************************************************)

\* The most interpretations of a response.
MaxInterpretations == 3

\* A slot of an interpretation's examples: number (1 singular, 2 plural),
\* article kind (1 definite, 2 indefinite) and case (1..4).
Numbers == {1, 2}
Kinds == {1, 2}
Cases == {1, 2, 3, 4}
Slots == Numbers \X Kinds \X Cases

\* How a slot is filled: not at all, with example and translation, or with
\* one of the two only.
FillModes == {"none", "both", "example", "translation"}

\* A shape fills the slots of a base pattern with both texts, and one slot
\* in its own way.
Bases == {"empty", "full", "singular", "plural", "case1", "case2", "case3", "case4"}

InBase(base, slot) ==
    CASE base = "empty"    -> FALSE
      [] base = "full"     -> TRUE
      [] base = "singular" -> slot[1] = 1
      [] base = "plural"   -> slot[1] = 2
      [] base = "case1"    -> slot[3] = 1
      [] base = "case2"    -> slot[3] = 2
      [] base = "case3"    -> slot[3] = 3
      [] base = "case4"    -> slot[3] = 4

Shape(base, slot, mode) == [base |-> base, slot |-> slot, mode |-> mode]

FillOf(shape, slot) ==
    IF slot = shape.slot THEN shape.mode
    ELSE IF InBase(shape.base, slot) THEN "both" ELSE "none"

\* The text of a slot of the i-th interpretation, different for every slot.
SlotText(prefix, i, slot) ==
    << prefix, <<"a","b","c","d","e","f">>[i], <<"S","P">>[slot[1]],
       <<"D","I">>[slot[2]], <<"1","2","3","4">>[slot[3]] >>

ExampleText(shape, i, slot) ==
    IF FillOf(shape, slot) \in {"both", "example"} THEN SlotText("e", i, slot) ELSE <<>>

TranslationText(shape, i, slot) ==
    IF FillOf(shape, slot) \in {"both", "translation"} THEN SlotText("x", i, slot) ELSE <<>>

ShapedTranslations(shape, i, n, k) ==
    [NominativeExample     |-> ExampleText(shape, i, <<n, k, 1>>),
     NominativeTranslation |-> TranslationText(shape, i, <<n, k, 1>>),
     AccusativeExample     |-> ExampleText(shape, i, <<n, k, 2>>),
     AccusativeTranslation |-> TranslationText(shape, i, <<n, k, 2>>),
     DativeExample         |-> ExampleText(shape, i, <<n, k, 3>>),
     DativeTranslation     |-> TranslationText(shape, i, <<n, k, 3>>),
     GenitiveExample       |-> ExampleText(shape, i, <<n, k, 4>>),
     GenitiveTranslation   |-> TranslationText(shape, i, <<n, k, 4>>)]

\* The i-th interpretation of a response, with its examples filled by shape.
ShapedInfo(shape, i) ==
    [WordWithArticle |-> <<"w", <<"a","b","c","d","e","f">>[i]>>,
     Translation     |-> <<"h", <<"a","b","c","d","e","f">>[i]>>,
     Example |->
        [Singular |-> [Definite   |-> ShapedTranslations(shape, i, 1, 1),
                       Indefinite |-> ShapedTranslations(shape, i, 1, 2)],
         Plural   |-> [Definite   |-> ShapedTranslations(shape, i, 2, 1),
                       Indefinite |-> ShapedTranslations(shape, i, 2, 2)]]]

\* All shapes, for responses of one interpretation.
Shapes == {Shape(b, s, m) : b \in Bases, s \in Slots, m \in FillModes}

\* A few shapes, for responses of several interpretations.
ListShapes ==
    { Shape("empty", <<1, 1, 1>>, "none"), Shape("full", <<1, 1, 1>>, "both"),
      Shape("plural", <<1, 2, 4>>, "example"), Shape("case1", <<2, 1, 3>>, "both") }

ShapeLists ==
    {<<s>> : s \in Shapes}
    \cup UNION {[1..n -> ListShapes] : n \in 2..MaxInterpretations}

DataOf(shapes) == [i \in 1..Len(shapes) |-> ShapedInfo(shapes[i], i)]

\* The payloads whose responses are formatted: successes of every shape, the
\* success without data and model-reported errors.
FormatPayloads ==
    {Payload(FALSE, <<>>, DataOf(shapes)) : shapes \in ShapeLists}
    \cup {Payload(FALSE, <<>>, <<>>)}
    \cup {Payload(TRUE, m, <<>>) : m \in {<<>>, <<"n","o"," ","n","o","u","n">>}}

\* The chat handler after Execute returned the response of a payload the
\* model wrote as the only candidate.
InitFormat ==
    /\ \E p \in FormatPayloads :
          /\ modelReply = OneText(Marshal(p, aiResponse))
          /\ intended = Intent("format", p, Marshal(p, aiResponse), <<>>, <<>>, <<>>)
          /\ response = <<Classify(p)>>
    /\ inbound = Inbound("telegram", "-", TRUE, <<"H","a","u","s">>, <<>>)
    /\ pc = "return"
    /\ request = <<NewArticleRequest(<<"H","a","u","s">>, DefaultLanguage)>>
    /\ aiCalls = 1
    /\ resp = modelReply.candidates
    /\ idx = 1
    /\ err = "nil"
    /\ log = <<Entry("info", "Processing article request", -1)>>
    /\ output = <<>>
    /\ telegramToken = TRUE
    /\ containers = <<>>
    /\ invokes = <<>>
    /\ contents = <<ExecuteTemplate(prompt, TemplateData(request[1]))>>

NextFormat == TelegramReply

SpecFormat == InitFormat /\ [][NextFormat]_vars

(***************************************************************************)
(* Properties                                                              *)
(***************************************************************************)

\* Execute has returned (to a handler that may have answered already).
Returned == pc \in {"return", "done"} /\ response # <<>>

\* parseGeminiResponse has returned for the candidates in resp.
Extracted == Returned /\ aiCalls = 1 /\ ~modelReply.fails

\* The candidate has text and its cleaned text decodes.
Parses(candidate) ==
    /\ ~HasNoContent(candidate)
    /\ TextOf(candidate) # <<>>
    /\ Unmarshal(CleanResponse(TextOf(candidate))).ok

ParsableIn(cs) == {i \in DOMAIN cs : Parses(cs[i])}

\* The payload decoded from a candidate that parses.
PayloadOf(candidate) == Unmarshal(CleanResponse(TextOf(candidate))).v

\* The zero-based candidate numbers the loop logged as skipped.
SkippedInLog == {log[n].i : n \in {m \in DOMAIN log : log[m].i >= 0}}

\* C1: candidates are tried in index order; content-less and unparsable ones
\* are skipped (and logged), and the response is the classification of the
\* lowest-index candidate that parses: when some candidate parses, the loop
\* never passes it and the extraction does not end in the "Failed to parse AI
\* response" failure, however many bad candidates come first.
C1_FallThrough ==
    (pc \in {"parse", "return", "done"} /\ ParsableIn(resp) # {}) =>
        LET k == Min(ParsableIn(resp))
        IN  /\ idx <= k
            /\ SkippedInLog = 0..(IF Extracted THEN k - 2 ELSE idx - 2)
            /\ Extracted =>
                 /\ idx = k
                 /\ err = "nil"
                 /\ response = <<Classify(PayloadOf(resp[k]))>>
                 /\ response # <<NewErrorResponse(MsgFailedToParse)>>

\* C1 witness: a malformed first candidate, a second one that parses, and the
\* request answered with the second one's data.
C1_Witness ==
    /\ pc = "done" /\ Len(resp) = 2
    /\ TextOf(resp[1]) # <<>> /\ ~Parses(resp[1]) /\ Parses(resp[2])
    /\ response[1].Success /\ Len(response[1].Data) = 1

\* C2: with no candidate, or none that has content and parses, the extraction
\* returns a failure response with its fixed text and a nil error, never a
\* success.
C2_TerminalFailure ==
    (Extracted /\ ParsableIn(resp) = {}) =>
        /\ err = "nil"
        /\ ~response[1].Success
        /\ response[1].Data = <<>>
        /\ response[1].Error = IF Len(resp) = 0 THEN MsgNoResponse ELSE MsgFailedToParse

\* C2 witness: two candidates, one without content and one with text that does
\* not decode, answered with the failure.
C2_Witness ==
    /\ pc = "done" /\ Len(resp) = 2
    /\ HasNoContent(resp[1]) /\ TextOf(resp[2]) # <<>> /\ ~Parses(resp[2])
    /\ response = <<NewErrorResponse(MsgFailedToParse)>>

\* C3 (as claimed): the canonical serialization of {error:false, data:D} as
\* the only candidate gives the success response with exactly D, whatever the
\* string fields hold.
C3_RoundTrip ==
    (Extracted /\ intended.kind = "canonical" /\ ~intended.payload.Error) =>
        response = <<NewSuccessResponse(intended.payload.Data)>>

\* The result of the extraction for a text taken as the only candidate.
ResultAlone(text) ==
    LET r == Unmarshal(CleanResponse(text))
    IN  IF text # <<>> /\ r.ok THEN Classify(r.v) ELSE NewErrorResponse(MsgFailedToParse)

\* C4 (as claimed): a JSON object with any prose and fences before and after
\* it gives the same result as the object alone.
C4_AnyProse ==
    (Extracted /\ intended.kind = "wrapped") =>
        response = <<ResultAlone(intended.bare)>>

\* C4 (amended): a JSON object with prose and fences around it gives the same
\* result as the object alone when the text before it holds no '{' and the
\* text after it no '}'.
C4_ProseWithoutBraces ==
    (Extracted /\ intended.kind = "wrapped"
       /\ ~Contains(intended.prefix, "{") /\ ~Contains(intended.suffix, "}")) =>
        response = <<ResultAlone(intended.bare)>>

\* C4 witness: an object inside a json code fence, with text after the fence,
\* answered with the object's one interpretation.
C4_Witness ==
    /\ pc = "done" /\ intended.kind = "wrapped"
    /\ intended.prefix = <<"U+0060","U+0060","U+0060","j","s","o","n","\n">>
    /\ Len(intended.suffix) > 4
    /\ ~Contains(intended.suffix, "}")
    /\ response[1].Success /\ Len(response[1].Data) = 1
    /\ response[1].Data = intended.payload.Data

\* C5 (as claimed): a JSON object with commas right before closing braces and
\* brackets parses to the payload of the object without those commas.
C5_TrailingCommaRepair ==
    (Extracted /\ intended.kind = "commas") =>
        response = <<Classify(Unmarshal(intended.bare).v)>>

\* C6 (as claimed): once Execute has validated the request, a word that is
\* empty or all white space has failed with "Word cannot be empty" (and the
\* model was not called), and any other word has not.
C6_Validation ==
    (request # <<>> /\ pc \in {"generate", "parse", "return", "done"}) =>
        IF TrimSpace(request[1].Word) = <<>>
        THEN aiCalls = 0 /\ response = <<NewErrorResponse(MsgWordEmpty)>>
        ELSE response # <<NewErrorResponse(MsgWordEmpty)>>

\* A request whose word the transport could read and found empty.
EmptyWordReceived ==
    /\ inbound.word = <<>>
    /\ inbound.channel = "http" => inbound.method \in {"GET", "POST"} /\ inbound.decodes

\* C7 (as claimed): for an empty word the model is never called, and the JSON
\* channels (console, HTTP) answer the "Word cannot be empty" failure.
C7_EmptyWordJSONOutput ==
    EmptyWordReceived =>
        /\ aiCalls = 0
        /\ (pc = "done" /\ inbound.channel \in {"console", "http"}) =>
              output[1].encoded = <<NewErrorResponse(MsgWordEmpty)>>

\* "{\n  "success": false,\n  "error": "Word cannot be empty"\n}\n"
ConsoleEmptyWordText ==
    << "{","\n"," "," ","\"","s","u","c","c","e","s","s","\"",":"," ","f","a",
       "l","s","e",",","\n"," "," ","\"","e","r","r","o","r","\"",":"," ","\"",
       "W","o","r","d"," ","c","a","n","n","o","t"," ","b","e"," ","e","m","p",
       "t","y","\"","\n","}","\n" >>

\* "{"success":false,"error":"Word parameter is required"}\n"
HTTPEmptyWordText ==
    << "{","\"","s","u","c","c","e","s","s","\"",":","f","a","l","s","e",",",
       "\"","e","r","r","o","r","\"",":","\"","W","o","r","d"," ","p","a","r",
       "a","m","e","t","e","r"," ","i","s"," ","r","e","q","u","i","r","e","d",
       "\"","}","\n" >>

\* C7 (amended): for an empty word the model is never called on any channel
\* and no error is returned; Execute returns the "Word cannot be empty"
\* failure, which the console prints as JSON; the HTTP handler answers an
\* empty word itself, before Execute, with status 400 and "Word parameter is
\* required"; on the chat channel a message without text reaches no handler
\* and nothing is sent, and a text of white space only is answered with a
\* request to send a word, without a call of the model.
C7_EmptyWordShortCircuit ==
    /\ (/\ inbound.channel = "telegram" /\ pc = "done"
        /\ inbound.word # <<>> /\ TrimSpace(inbound.word) = <<>>) =>
          /\ aiCalls = 0 /\ response = <<>>
          /\ output = <<Answer(0, MsgSendWord, <<>>)>>
    /\ EmptyWordReceived =>
        /\ aiCalls = 0
        /\ err = "nil"
        /\ pc \notin {"generate", "parse"}
        /\ Returned => response = <<NewErrorResponse(MsgWordEmpty)>>
        /\ pc = "done" =>
             CASE inbound.channel = "console" ->
                    output = <<Answer(0, ConsoleEmptyWordText, <<NewErrorResponse(MsgWordEmpty)>>)>>
               [] inbound.channel = "http" ->
                    /\ response = <<>>
                    /\ output = <<Answer(400, HTTPEmptyWordText, <<NewErrorResponse(MsgWordRequired)>>)>>
               [] inbound.channel = "telegram" ->
                    /\ response = <<>>
                    /\ output = <<>>

\* C7 witness: the console answered an empty word with the failure as JSON,
\* and the model was not called.
C7_Witness ==
    /\ pc = "done" /\ inbound.channel = "console" /\ inbound.word = <<>>
    /\ aiCalls = 0
    /\ output[1].body = ConsoleEmptyWordText

\* C8: the response for a decoded payload is the failure with exactly the
\* payload's errorMessage and no data when payload.error is set, and otherwise
\* the success with the payload's data, unchanged in content and order (none
\* for an empty or missing array); no error is returned.
C8_Classification ==
    (Extracted /\ ParsableIn(resp) # {}) =>
        LET payload == PayloadOf(resp[Min(ParsableIn(resp))])
            r == response[1]
        IN  /\ err = "nil"
            /\ r.Success = ~payload.Error
            /\ r.Error = (IF payload.Error THEN payload.ErrorMessage ELSE <<>>)
            /\ r.Data = (IF payload.Error THEN <<>> ELSE payload.Data)

\* C8 witness: a payload with the error flag, a message and data was answered
\* with the message and without the data.
C8_Witness ==
    /\ pc = "done" /\ intended.kind = "canonical"
    /\ intended.payload.Error /\ Len(intended.payload.Data) = 1
    /\ intended.payload.ErrorMessage # <<>>
    /\ response = <<NewErrorResponse(intended.payload.ErrorMessage)>>

\* C9: Execute returns a non-nil error exactly when the call of the model
\* failed; an empty word, a model-reported error, no candidates, unparsable
\* candidates and success all return a nil error with a response value.
C9_ErrorPropagation ==
    /\ Returned => (err # "nil" <=> (aiCalls = 1 /\ modelReply.fails))
    /\ ~Returned => err = "nil"
    /\ (Returned /\ err = "nil" /\ aiCalls = 1 /\ ParsableIn(resp) = {}) =>
          response[1].Error \in {MsgNoResponse, MsgFailedToParse}

\* C9 witness: the call of the model failed and Execute returned the error.
C9_Witness ==
    /\ pc = "return" /\ modelReply.fails /\ aiCalls = 1
    /\ err = modelReply.error /\ err # "nil"

\* The ArticleResponses handed to a channel so far: Execute's and the one the
\* handler encoded.
HandedResponses ==
    {response[i] : i \in DOMAIN response}
    \cup (IF output = <<>> THEN {} ELSE {output[1].encoded[i] : i \in DOMAIN output[1].encoded})

\* C10: every ArticleResponse handed to a channel has one meaningful side: an
\* error text only with success=false, data only with success=true, never
\* both.
C10_OneSide ==
    \A r \in HandedResponses :
        /\ r.Error # <<>> => ~r.Success
        /\ r.Data # <<>> => r.Success
        /\ ~(r.Error # <<>> /\ r.Data # <<>>)

\* C10 witness: the HTTP handler encoded a success with an interpretation and
\* no error text.
C10_Witness ==
    /\ pc = "done" /\ inbound.channel = "http"
    /\ output[1].status = 200 /\ output[1].encoded # <<>>
    /\ output[1].encoded[1].Success /\ Len(output[1].encoded[1].Data) = 1
    /\ output[1].encoded[1].Error = <<>>

\* C11: the generative model is called at most once for a request, with no
\* second call after a failed call or after candidates that do not parse,
\* and exactly once when the request is valid: no call before Execute has
\* validated the request, none for an invalid request, and one from then on.
C11_AtMostOneCall ==
    /\ aiCalls \in {0, 1}
    /\ pc \in {"handler", "execute", "generate"} => aiCalls = 0
    /\ (request = <<>> \/ ~IsValid(request[1])) => aiCalls = 0
    /\ (pc \in {"parse", "return", "done"} /\ request # <<>> /\ IsValid(request[1])) =>
          aiCalls = 1
    /\ Len(contents) = aiCalls

\* C11 witness: two candidates that do not parse were answered after one call.
C11_Witness ==
    /\ pc = "done" /\ aiCalls = 1
    /\ Len(resp) = 2 /\ ParsableIn(resp) = {}
    /\ response = <<NewErrorResponse(MsgFailedToParse)>>

\* C12: concurrent calls of Invoke share no mutable state: each call has a
\* container (with its handlers) of its own, a BotHandler's ctx is only ever
\* written by the call that owns it, and the "invokeCtx" a chat handler reads
\* is the span context of the call that delivered the update.
C12_NoSharedState ==
    /\ \A i, j \in DOMAIN invokes :
          (i # j /\ invokes[i].container # 0) => invokes[i].container # invokes[j].container
    /\ \A i \in DOMAIN invokes :
          /\ invokes[i].pc \in {"handleText", "handleStart", "done"} /\ invokes[i].invokeCtx # NoCtx =>
                invokes[i].invokeCtx = SpanCtx(i)
          /\ invokes[i].ctx # NoCtx => invokes[i].ctx.request = i
          /\ (invokes[i].container # 0 /\ containers[invokes[i].container].TelegramBot # <<>>) =>
                containers[invokes[i].container].TelegramBot[1].ctx.request = i

\* C12 witness: two updates were handled, the first one reading its context
\* after the second had set its own, and both worked under their own span.
C12_Witness ==
    /\ \A i \in {1, 2} : /\ invokes[i].pc = "done"
                         /\ invokes[i].req = UpdateRequest(<<"H","a","u","s">>)
    /\ 2 \in invokes[1].overlapped
    /\ invokes[1].ctx = StartSpan(SpanCtx(1), "Telegram Text Message")
    /\ invokes[2].ctx = StartSpan(SpanCtx(2), "Telegram Text Message")

\* The text before the first '-' or ';' of a language code.
PrimarySubtag(code) == BeforeFirst(BeforeFirst(code, "-"), ";")

\* C13 (as claimed): on every channel the request's language is "en" for an
\* empty language code and otherwise the code's primary subtag, so it never
\* holds a region or quality suffix.
C13_LanguageNormalized ==
    request # <<>> =>
        /\ request[1].Language =
              (IF inbound.language = <<>> THEN DefaultLanguage
               ELSE PrimarySubtag(inbound.language))
        /\ ~Contains(request[1].Language, "-")
        /\ ~Contains(request[1].Language, ";")

\* The chat handler has sent the formatted response of Execute.
Formatted ==
    /\ pc = "done" /\ inbound.channel = "telegram"
    /\ err = "nil" /\ response # <<>> /\ output # <<>>

\* The chat handler has sent a success with at least one interpretation.
FormattedData == Formatted /\ response[1].Success /\ response[1].Data # <<>>

\* pat is a piece of text s.
Occurs(pat, s) ==
    \E i \in 1..(Len(s) - Len(pat) + 1) : SubSeq(s, i, i + Len(pat) - 1) = pat

\* The places where pat starts in s.
Places(pat, s) ==
    {i \in 1..(Len(s) - Len(pat) + 1) : SubSeq(s, i, i + Len(pat) - 1) = pat}

\* The TranslationsInfo of a slot's number and kind in an interpretation.
SlotInfo(info, slot) ==
    LET number == IF slot[1] = 1 THEN info.Example.Singular ELSE info.Example.Plural
    IN  IF slot[2] = 1 THEN number.Definite ELSE number.Indefinite

\* The presence rule: the slot's example and translation are both non-empty.
Present(info, slot) ==
    /\ ExampleOf(SlotInfo(info, slot), slot[3]) # <<>>
    /\ TranslationOf(SlotInfo(info, slot), slot[3]) # <<>>

\* The line of a slot as the chat message shows it.
SlotLine(info, slot) ==
    << "U+2022"," ","<","b",">" >> \o CaseNames[slot[3]] \o <<" ">>
    \o (IF slot[2] = 1 THEN KindDefinite ELSE KindIndefinite)
    \o << ":","<","/","b",">"," " >> \o ExampleOf(SlotInfo(info, slot), slot[3])
    \o << " ","/"," ","<","i",">" >> \o TranslationOf(SlotInfo(info, slot), slot[3])
    \o << "<","/","i",">","\n" >>

\* C14: in the chat message the line of a number, article kind and case is
\* there if and only if the slot's example and translation are both
\* non-empty; the text of a slot with one of the two only appears nowhere, and
\* the message has as many case lines as there are present slots.
C14_PresenceRule ==
    FormattedData =>
        LET data == response[1].Data
            body == output[1].body
        IN  /\ \A i \in DOMAIN data, slot \in Slots :
                  LET ex == ExampleOf(SlotInfo(data[i], slot), slot[3])
                      tr == TranslationOf(SlotInfo(data[i], slot), slot[3])
                  IN  /\ Present(data[i], slot) <=> Occurs(SlotLine(data[i], slot), body)
                      /\ (~Present(data[i], slot) /\ ex # <<>>) => ~Occurs(ex, body)
                      /\ (~Present(data[i], slot) /\ tr # <<>>) => ~Occurs(tr, body)
            /\ Cardinality(Places(<<"U+2022">>, body))
                  = Cardinality({x \in (DOMAIN data) \X Slots : Present(data[x[1]], x[2])})

\* C14 witness: every slot is filled but the singular definite nominative,
\* which has its example only, and the message has the other fifteen lines.
C14_Witness ==
    /\ FormattedData /\ Len(response[1].Data) = 1
    /\ response[1].Data[1].Example.Singular.Definite.NominativeExample # <<>>
    /\ response[1].Data[1].Example.Singular.Definite.NominativeTranslation = <<>>
    /\ Cardinality(Places(<<"U+2022">>, output[1].body)) = 15

\* C15 (as claimed): the chat message of a success with interpretations
\* neither starts nor ends with white space, and a blank line stands only
\* between two lines of text: never two in a row, never at the end of a
\* number block or of the message.
C15_BlankLines ==
    FormattedData =>
        LET body == output[1].body
        IN  /\ body[1] \notin UnicodeSpace
            /\ body[Len(body)] \notin UnicodeSpace
            /\ \A p \in Places(<<"\n", "\n">>, body) :
                  p + 2 <= Len(body) /\ body[p + 2] \notin UnicodeSpace

\* C16 (as claimed): when Execute returned an error, what the channel shows
\* does not hold the error's text.
C16_GenericFailure ==
    (pc = "done" /\ err # "nil") => ~Occurs(<<err>>, output[1].body)

\* "{"success":false,"error":"Internal server error"}\n"
HTTPInternalErrorText ==
    << "{","\"","s","u","c","c","e","s","s","\"",":","f","a","l","s","e",",",
       "\"","e","r","r","o","r","\"",":","\"","I","n","t","e","r","n","a","l",
       " ","s","e","r","v","e","r"," ","e","r","r","o","r","\"","}","\n" >>

\* C16 (amended): when Execute returned an error, HTTP answers status 500
\* with the fixed "Internal server error" failure and the chat channel sends
\* its fixed apology, not the formatted response; the console program ends
\* with status 1 after writing the error's text. With a nil error HTTP
\* answers 200 with Execute's response and the chat channel sends the
\* formatted response, failures included.
C16_GenericFailureOnHTTPAndChat ==
    (pc = "done" /\ Returned) =>
        IF err # "nil"
        THEN CASE inbound.channel = "http" ->
                    output = <<Answer(500, HTTPInternalErrorText,
                                      <<NewErrorResponse(MsgInternalError)>>)>>
               [] inbound.channel = "telegram" ->
                    /\ output = <<Answer(0, MsgSorry, <<>>)>>
                    /\ output[1].body # formatResponse(response[1])
               [] inbound.channel = "console" ->
                    /\ output[1].status = 1 /\ output[1].encoded = <<>>
                    /\ output[1].body = MsgFatal \o <<err>> \o <<"\n">>
        ELSE CASE inbound.channel = "http" ->
                    /\ output[1].status = 200 /\ output[1].encoded = response
                    /\ output[1].body = EncoderEncode(response[1], ArticleResponse)
               [] inbound.channel = "telegram" ->
                    output = <<Answer(0, formatResponse(response[1]), response)>>
               [] inbound.channel = "console" ->
                    output[1].status = 0 /\ output[1].encoded = response

\* C16 witness: the call of the model failed and HTTP answered 500.
C16_Witness ==
    /\ pc = "done" /\ inbound.channel = "http"
    /\ modelReply.fails /\ err # "nil"
    /\ output[1].status = 500
    /\ output[1].body = HTTPInternalErrorText

\* The template with the values written as they are.
LiteralPrompt(r) ==
    Concat([i \in DOMAIN prompt |->
               IF prompt[i].kind = "text" THEN <<prompt[i].s>>
               ELSE TemplateData(r)[prompt[i].s]])

\* C17 (as claimed): the prompt sent to the model is the template with the
\* request's word and language, character for character, at every {{.Word}}
\* and {{.Language}}.
C17_LiteralSubstitution ==
    contents # <<>> => contents[1] = LiteralPrompt(request[1])

\* "❌ No information found for this word."
NoInformationText ==
    << "U+274C"," ","N","o"," ","i","n","f","o","r","m","a","t","i","o","n",
       " ","f","o","u","n","d"," ","f","o","r"," ","t","h","i","s"," ","w","o",
       "r","d","." >>

\* "❌ <b>Error:</b> "
ErrorMarkerText ==
    << "U+274C"," ","<","b",">","E","r","r","o","r",":","<","/","b",">"," " >>

\* C18: scenario D, a json code fence around {"error":false,"data":[]} with
\* commentary after it, is extracted as a success without interpretations,
\* which the chat channel shows as the fixed "no information found" message;
\* a failure response is shown as one line, the error marker and the error
\* text; the formatter answers both.
C18_ScenarioD ==
    /\ (intended.kind = "scenarioD" /\ pc \in {"return", "done"}) =>
          /\ err = "nil"
          /\ response = <<NewSuccessResponse(<<>>)>>
          /\ pc = "done" => output = <<Answer(0, NoInformationText, response)>>
    /\ (Formatted /\ ~response[1].Success) =>
          /\ output[1].body = ErrorMarkerText \o response[1].Error
          /\ Cardinality(Places(<<"\n">>, output[1].body))
                = Cardinality(Places(<<"\n">>, response[1].Error))

\* C18 witness: scenario D was answered on the chat channel.
C18_Witness ==
    /\ pc = "done" /\ intended.kind = "scenarioD"
    /\ TextOf(resp[1]) = ScenarioDText
    /\ output[1].body = NoInformationText

\* A number of an interpretation is populated under the presence rule: one of
\* its case and article pairs has both its example and its translation.
Populated(info, number) ==
    \E k \in Kinds, c \in Cases : Present(info, <<number, k, c>>)

\* The label of a number without its line end.
NumberLabel(number) ==
    LET label == IF number = 1 THEN FmtSingular ELSE FmtPlural
    IN  SubSeq(label, 1, Len(label) - 1)

\* C19 (as claimed): the chat message has the label of a number once for
\* every interpretation whose number has a pair with both example and
\* translation and for no other, and every label has a case line right
\* under it.
C19_NumberBlocks ==
    FormattedData =>
        LET data == response[1].Data
            body == output[1].body
        IN  \A number \in Numbers :
               /\ Cardinality(Places(NumberLabel(number), body))
                     = Cardinality({i \in DOMAIN data : Populated(data[i], number)})
               /\ \A p \in Places(NumberLabel(number), body) :
                     LET under == p + Len(NumberLabel(number)) + 1
                     IN  under <= Len(body) /\ body[under] = "U+2022"

\* The rule of the divider, ten times.
DividerRule ==
    << "U+2500","U+2500","U+2500","U+2500","U+2500","U+2500","U+2500",
       "U+2500","U+2500","U+2500" >>

\* The only place of pat in s.
Place(pat, s) == CHOOSE p \in Places(pat, s) : TRUE

\* Slot s comes before slot t in the fixed order: singular before plural,
\* then nominative, accusative, dative, genitive, then definite before
\* indefinite.
SlotBefore(s, t) ==
    \/ s[1] < t[1]
    \/ s[1] = t[1] /\ s[3] < t[3]
    \/ s[1] = t[1] /\ s[3] = t[3] /\ s[2] < t[2]

\* C20: the chat message of a success with N interpretations has them in the
\* order of Data with N-1 dividers, one between each two neighbours and none
\* before the first or after the last; in an interpretation the header comes
\* first, the singular label before the plural label, each label before the
\* lines of its number, and the lines in the order nominative, accusative,
\* dative, genitive, the definite line before the indefinite line of a case.
C20_Ordering ==
    FormattedData =>
        LET data == response[1].Data
            body == output[1].body
            N == Len(data)
            header(i) == FmtHeader(data[i])
            start(i) == Place(header(i), body)
            end(i) == IF i < N THEN Place(header(i + 1), body) ELSE Len(body) + 1
            within(i, p) == start(i) < p /\ p < end(i)
            rules == Places(DividerRule, body)
        IN  /\ Cardinality(rules) = N - 1
            /\ Cardinality(Places(<<"U+2500">>, body)) = 10 * (N - 1)
            /\ \A i \in 1..N : Cardinality(Places(header(i), body)) = 1
            /\ start(1) = 1
            /\ \A i \in 1..(N - 1) :
                  /\ start(i) < start(i + 1)
                  /\ \E p \in rules :
                        /\ within(i, p)
                        /\ SubSeq(body, p + 10, start(i + 1) - 1) = <<"\n", "\n">>
            /\ \A p \in rules : p < start(N)
            /\ \A i \in 1..N :
                  /\ \A s \in Slots :
                        Present(data[i], s) =>
                           /\ Cardinality(Places(SlotLine(data[i], s), body)) = 1
                           /\ within(i, Place(SlotLine(data[i], s), body))
                           /\ \E p \in Places(NumberLabel(s[1]), body) :
                                 /\ within(i, p)
                                 /\ p < Place(SlotLine(data[i], s), body)
                                 /\ s[1] = 1 =>
                                       \A q \in Places(NumberLabel(2), body) :
                                          within(i, q) =>
                                             Place(SlotLine(data[i], s), body) < q
                  /\ \A s, t \in Slots :
                        (Present(data[i], s) /\ Present(data[i], t) /\ SlotBefore(s, t)) =>
                           Place(SlotLine(data[i], s), body)
                              < Place(SlotLine(data[i], t), body)
                  /\ \A p \in Places(NumberLabel(1), body),
                        q \in Places(NumberLabel(2), body) :
                        (within(i, p) /\ within(i, q)) => p < q

\* C20 witness: a message of three interpretations with two dividers, the
\* second interpretation with all its sixteen lines.
C20_Witness ==
    /\ FormattedData /\ Len(response[1].Data) = 3
    /\ Cardinality(Places(DividerRule, output[1].body)) = 2
    /\ \A s \in Slots : Present(response[1].Data[2], s)
    /\ Place(SlotLine(response[1].Data[2], <<1, 1, 1>>), output[1].body)
          < Place(SlotLine(response[1].Data[2], <<1, 2, 1>>), output[1].body)

====
